---- MODULE Spec2Model ----
(***************************************************************************)
(* A model of riskcore's security-identifier resolution core:              *)
(*                                                                         *)
(*   - OpenFIGIClient (backend/services/openfigi.py): the batching,        *)
(*     rate-limited, retrying mapping client;                              *)
(*   - SecurityMasterService (backend/services/security_master.py): the    *)
(*     resolution engine over the relational store.                        *)
(*                                                                         *)
(* The client's two ceilings (_rate_limit: 25 or 250 requests a minute,    *)
(* _max_jobs: 5 or 100 jobs a request) are instance attributes; the model  *)
(* draws them from small ranges so that several chunks and a full window   *)
(* are reached with a few jobs.  Time is the integer number of seconds     *)
(* read by time.time(); time.sleep(s) advances it by exactly s.            *)
(***************************************************************************)
EXTENDS Integers, Sequences, FiniteSets, TLC

(***************************************************************************)
(* Bounds of the model.  MaxWork bounds one map_jobs call: the jobs of the *)
(* call plus the oracle's misbehaviours during it (a non-200 response, a   *)
(* network failure, a 200 response with a wrong number of entries).        *)
(***************************************************************************)
MaxWork == 5
MaxCap == 2
MaxRate == 2

(***************************************************************************)
(* Program constants.                                                      *)
(***************************************************************************)
WINDOW == 60
RETRIES == 3
DEFAULT_RETRY_AFTER == 60

None == <<>>
Some(x) == <<x>>

Min(a, b) == IF a <= b THEN a ELSE b

VARIABLES
  rate_limit,          \* OpenFIGIClient._rate_limit
  max_jobs,            \* OpenFIGIClient._max_jobs
  request_count,       \* OpenFIGIClient._request_count
  last_request_time,   \* OpenFIGIClient._last_request_time
  now,                 \* the wall clock, in seconds
  jobs,                \* map_jobs: the argument
  pc,                  \* map_jobs: where the call stands
  i,                   \* map_jobs: the loop variable, offset of the current chunk
  attempt,             \* _make_request: the loop variable
  all_results,         \* map_jobs: the list being built
  sent,                \* history: every request dispatched, in order
  slept,               \* history: every time.sleep, in order
  chunks,              \* history: per finished chunk, what it appended
  faults,              \* history: oracle misbehaviours so far (bounded)
  tpc,                 \* concurrent callers: where each stands in _make_request
  tloc,                \* concurrent callers: the locals of each
  posted,              \* history: the requests the concurrent callers dispatched
  issued,              \* history: requests dispatched since the counter was last reset
  securities,          \* the securities table: committed rows, in insertion order
  security_identifiers,\* the security_identifiers table: committed rows, in insertion order
  next_id,             \* the uuid.uuid4() of the next security that is stored
  tx_failed,           \* the connection's transaction was aborted and not rolled back
  oracle_calls,        \* history: calls of figi_client.map_identifier
  calls,               \* history: the resolve_identifier calls, with arguments and outcome
  figi_unique,         \* the schema: securities.figi carries a unique index
  today,               \* the calendar, in days
  running,             \* resolve_identifiers: the call that is running, if any
  batches,             \* history: the resolve_identifiers calls that returned
  enrichments,         \* history: the enrich_security calls, with outcome
  rpc,                 \* racing callers: where each stands in resolve_identifier
  rloc,                \* racing callers: the locals of each
  searching,           \* search: the call that is running, if any
  searches,            \* history: the search calls that returned
  vpc,                 \* validate_*: where the call stands
  table,               \* validate_*: the table whose rules are applied
  outcomes,            \* validate_*: per input record, the severities of the results
                       \*   that _validate_record returns for it, in order
  row,                 \* validate_*: the loop variable
  summary,             \* validate_*: the ValidationSummary being built
  failed_records       \* validate_*: the local set of that name

clientVars == <<rate_limit, max_jobs, request_count, last_request_time, now, jobs,
                pc, i, attempt, all_results, sent, slept, chunks, faults>>

threadVars == <<tpc, tloc, posted, issued>>

storeVars == <<securities, security_identifiers, next_id, tx_failed, oracle_calls, calls,
               figi_unique, today, running, batches, enrichments>>

raceVars == <<rpc, rloc>>

searchVars == <<searching, searches>>

validVars == <<vpc, table, outcomes, row, summary, failed_records>>

vars == <<clientVars, threadVars, storeVars, raceVars, searchVars, validVars>>

(***************************************************************************)
(* The oracle's alphabet.  An entry of a 200 response carries an "error"   *)
(* key, a "data" key, both or neither; a missing key is None.              *)
(***************************************************************************)
Entries ==
  { [error |-> Some("oracle error"), data |-> None],
    [error |-> None, data |-> Some(<<"F1">>)],
    [error |-> None, data |-> Some(<<>>)] }

\* entries of every shape: with both keys, with neither, with two items of data
AllEntries ==
  { [error |-> Some("oracle error"), data |-> None],
    [error |-> Some("oracle error"), data |-> Some(<<"F1">>)],
    [error |-> None, data |-> None],
    [error |-> None, data |-> Some(<<>>)],
    [error |-> None, data |-> Some(<<"F1", "F2">>)] }

RetryAfterHeaders == { None, Some(1) }

RECURSIVE SeqsOfLen(_, _)
SeqsOfLen(S, n) ==
  IF n = 0 THEN { <<>> }
  ELSE { Append(s, x) : s \in SeqsOfLen(S, n - 1), x \in S }

(***************************************************************************)
(* map_jobs: the pure parts.                                               *)
(***************************************************************************)
\* a slice that runs one job too far
BatchOffByOne(js, off, m) == SubSeq(js, off + 1, Min(off + m + 1, Len(js)))

\* jobs[i:i + self._max_jobs]
Batch(js, off, m) == SubSeq(js, off + 1, Min(off + m, Len(js)))

\* FIGIResult.from_api_response(item, query)
FromApiResponse(item, query) == [figi |-> item, query |-> query]

\* a classification that gives no reason for an entry without data
ClassifyNoReason(result_data, query) ==
  IF result_data.error # None
  THEN [success |-> FALSE, results |-> <<>>, error |-> result_data.error, query |-> query]
  ELSE IF result_data.data # None /\ result_data.data[1] # <<>>
  THEN [success |-> TRUE,
        results |-> [k \in 1..Len(result_data.data[1]) |->
                       FromApiResponse(result_data.data[1][k], query)],
        error |-> None, query |-> query]
  ELSE [success |-> FALSE, results |-> <<>>, error |-> None, query |-> query]

\* a classification that looks at "data" before "error"
ClassifyDataFirst(result_data, query) ==
  IF result_data.data # None /\ result_data.data[1] # <<>>
  THEN [success |-> TRUE,
        results |-> [k \in 1..Len(result_data.data[1]) |->
                       FromApiResponse(result_data.data[1][k], query)],
        error |-> None, query |-> query]
  ELSE IF result_data.error # None
  THEN [success |-> FALSE, results |-> <<>>, error |-> result_data.error, query |-> query]
  ELSE [success |-> FALSE, results |-> <<>>, error |-> Some("No match found"),
        query |-> query]

\* the body of "for j, result_data in enumerate(api_results)"
Classify(result_data, query) ==
  IF result_data.error # None
  THEN [success |-> FALSE, results |-> <<>>, error |-> result_data.error, query |-> query]
  ELSE IF result_data.data # None /\ result_data.data[1] # <<>>
  THEN [success |-> TRUE,
        results |-> [k \in 1..Len(result_data.data[1]) |->
                       FromApiResponse(result_data.data[1][k], query)],
        error |-> None, query |-> query]
  ELSE [success |-> FALSE, results |-> <<>>, error |-> Some("No match found"),
        query |-> query]

\* query = batch[j] if j < len(batch) else None
QueryAt(batch, j) == IF j <= Len(batch) THEN Some(batch[j]) ELSE None

ProcessResults(api_results, batch) ==
  [j \in 1..Len(api_results) |-> Classify(api_results[j], QueryAt(batch, j))]

\* except OpenFIGIError as e: mark all as failed
FailBatch(batch, e) ==
  [j \in 1..Len(batch) |->
     [success |-> FALSE, results |-> <<>>, error |-> Some(e), query |-> Some(batch[j])]]

\* map_identifier: results[0] if results else MappingResult(success=False, error="No results")
MapIdentifier(results) ==
  IF results # <<>> THEN results[1]
  ELSE [success |-> FALSE, results |-> <<>>, error |-> Some("No results"), query |-> None]

\* a linear backoff in place of the exponential one
BackoffLinear(a) == 2 * a

\* time.sleep(2 ** attempt)
Backoff(a) == 2 ^ a

\* a header lookup without the default
RetryAfterNoDefault(h) == IF h = None THEN 0 ELSE h[1]

\* int(response.headers.get("Retry-After", 60))
RetryAfter(h) == IF h = None THEN DEFAULT_RETRY_AFTER ELSE h[1]

(***************************************************************************)
(* Init: a client as __init__ leaves it, and the arguments of one map_jobs *)
(* call.  Job k stands for the k-th MappingJob object of the argument.     *)
(***************************************************************************)
Callers == {"c1", "c2"}

ThreadsIdle ==
  /\ tpc = [t \in Callers |-> "off"]
  /\ tloc = [t \in Callers |-> [current_time |-> 0, elapsed |-> 0, wake |-> 0,
                                 count |-> 0, done |-> 0]]
  /\ posted = <<>>
  /\ issued = 0

InitClient ==
  /\ rate_limit \in 1..MaxRate
  /\ max_jobs \in 1..MaxCap
  /\ request_count = 0
  /\ last_request_time = 0
  /\ now = WINDOW
  /\ jobs \in { [k \in 1..n |-> k] : n \in 0..MaxWork }
  /\ pc = "idle"
  /\ i = 0
  /\ attempt = 0
  /\ all_results = <<>>
  /\ sent = <<>>
  /\ slept = <<>>
  /\ chunks = <<>>
  /\ faults = 0

StoreIdle ==
  /\ securities = <<>>
  /\ security_identifiers = <<>>
  /\ next_id = 1
  /\ tx_failed = FALSE
  /\ oracle_calls = 0
  /\ calls = <<>>
  /\ figi_unique = FALSE
  /\ today = 0
  /\ running = None
  /\ batches = <<>>
  /\ enrichments = <<>>

RaceIdle ==
  /\ rpc = [t \in Callers |-> "off"]
  /\ rloc = [t \in Callers |-> None]

SearchIdle ==
  /\ searching = None
  /\ searches = <<>>

ValidatorIdle ==
  /\ vpc = "off"
  /\ table = None
  /\ outcomes = <<>>
  /\ row = 0
  /\ summary = None
  /\ failed_records = {}

Init == InitClient /\ ThreadsIdle /\ StoreIdle /\ RaceIdle /\ SearchIdle /\ ValidatorIdle

CurBatch == Batch(jobs, i, max_jobs)

(***************************************************************************)
(* map_jobs, up to the first chunk.                                        *)
(***************************************************************************)
MapJobs ==
  /\ pc = "idle"
  /\ pc' = IF Len(jobs) = 0 THEN "done" ELSE "wait"
  /\ i' = 0
  /\ all_results' = <<>>
  /\ UNCHANGED <<rate_limit, max_jobs, request_count, last_request_time, now, jobs,
                 attempt, sent, slept, chunks, faults>>
  /\ UNCHANGED <<threadVars, storeVars, raceVars, searchVars, validVars>>

(***************************************************************************)
(* _wait_for_rate_limit, called once at the head of _make_request.         *)
(***************************************************************************)
Elapsed == now - last_request_time

\* a limiter that, at the limit, waits for a count that nothing resets
WaitForRateLimitForever ==
  /\ pc = "wait"
  /\ IF Elapsed >= WINDOW
     THEN /\ request_count' = 0
          /\ last_request_time' = now
          /\ pc' = "post"
          /\ UNCHANGED <<now, slept>>
     ELSE IF request_count >= rate_limit
     THEN UNCHANGED <<request_count, last_request_time, now, slept, pc>>
     ELSE /\ pc' = "post"
          /\ UNCHANGED <<request_count, last_request_time, now, slept>>
  /\ attempt' = 0
  /\ UNCHANGED <<rate_limit, max_jobs, jobs, i, all_results, sent, chunks, faults>>
  /\ UNCHANGED <<threadVars, storeVars, raceVars, searchVars, validVars>>

WaitForRateLimit ==
  /\ pc = "wait"
  /\ IF Elapsed >= WINDOW
     THEN /\ request_count' = 0
          /\ last_request_time' = now
          /\ UNCHANGED <<now, slept>>
     ELSE IF request_count >= rate_limit
     THEN /\ now' = now + (WINDOW - Elapsed)
          /\ slept' = Append(slept, [chunk |-> i, kind |-> "limit",
                                     attempt |-> 0, secs |-> WINDOW - Elapsed])
          /\ request_count' = 0
          /\ last_request_time' = now'
     ELSE UNCHANGED <<request_count, last_request_time, now, slept>>
  /\ attempt' = 0
  /\ pc' = "post"
  /\ UNCHANGED <<rate_limit, max_jobs, jobs, i, all_results, sent, chunks, faults>>
  /\ UNCHANGED <<threadVars, storeVars, raceVars, searchVars, validVars>>

(***************************************************************************)
(* One pass of the retry loop of _make_request: the request is posted and  *)
(* the response handled.  The chunk ends with a list of results (200) or   *)
(* with an OpenFIGIError that map_jobs turns into failed results.          *)
(***************************************************************************)
\* a request and its response: the status, the JSON body of a 200, the Retry-After
\* header of a 429
Dispatch(kind, payload) ==
  sent' = Append(sent, [chunk |-> i, batch |-> CurBatch, attempt |-> attempt,
                        at |-> now, resp |-> kind,
                        body |-> IF kind = "200" THEN payload ELSE <<>>,
                        retry_after |-> IF kind = "429" THEN payload ELSE None])

\* a failed chunk's exception leaves map_jobs instead of being caught
EndChunkRaising(out, how) ==
  IF how = "ok"
  THEN /\ all_results' = all_results \o out
       /\ chunks' = Append(chunks, [chunk |-> i, batch |-> CurBatch, out |-> out, how |-> how])
       /\ i' = i + max_jobs
       /\ pc' = IF i + max_jobs >= Len(jobs) THEN "done" ELSE "wait"
       /\ attempt' = attempt
  ELSE /\ pc' = "raised"
       /\ UNCHANGED <<all_results, chunks, i, attempt>>

\* the chunk is over: map_jobs appends `out` and moves to the next chunk
EndChunk(out, how) ==
  /\ all_results' = all_results \o out
  /\ chunks' = Append(chunks, [chunk |-> i, batch |-> CurBatch, out |-> out, how |-> how])
  /\ i' = i + max_jobs
  /\ pc' = IF i + max_jobs >= Len(jobs) THEN "done" ELSE "wait"
  /\ attempt' = attempt

\* a `continue` that does not use up an attempt
ContinueFree == UNCHANGED <<attempt, pc, i, all_results, chunks>>

\* `continue`: the next pass of the loop, or "Max retries exceeded" after the last
Continue ==
  IF attempt + 1 < RETRIES
  THEN /\ attempt' = attempt + 1
       /\ UNCHANGED <<pc, i, all_results, chunks>>
  ELSE EndChunk(FailBatch(CurBatch, "Max retries exceeded"), "max_retries")

\* the else branch and the except branch: back off and retry, or raise
RetryOrRaise(e, how) ==
  IF attempt < RETRIES - 1
  THEN /\ now' = now + Backoff(attempt)
       /\ slept' = Append(slept, [chunk |-> i, kind |-> "backoff",
                                  attempt |-> attempt, secs |-> Backoff(attempt)])
       /\ attempt' = attempt + 1
       /\ UNCHANGED <<pc, i, all_results, chunks>>
  ELSE /\ EndChunk(FailBatch(CurBatch, e), how)
       /\ UNCHANGED <<now, slept>>

\* a 200 response whose entries are drawn from E
Post200(E) ==
  /\ pc = "post"
  /\ \E n \in { Len(CurBatch) - 1, Len(CurBatch), Len(CurBatch) + 1 } :
       /\ n >= 0
       /\ n # Len(CurBatch) => Len(jobs) + faults < MaxWork
       /\ faults' = IF n # Len(CurBatch) THEN faults + 1 ELSE faults
       /\ \E api_results \in SeqsOfLen(E, n) :
            /\ Dispatch("200", api_results)
            /\ request_count' = request_count + 1
            /\ EndChunk(ProcessResults(api_results, CurBatch), "ok")
  /\ UNCHANGED <<rate_limit, max_jobs, last_request_time, now, jobs, slept>>
  /\ UNCHANGED <<threadVars, storeVars, raceVars, searchVars, validVars>>

PostOk == Post200(Entries)

PostThrottled ==
  /\ pc = "post"
  /\ Len(jobs) + faults < MaxWork
  /\ faults' = faults + 1
  /\ \E h \in RetryAfterHeaders :
       /\ Dispatch("429", h)
       /\ request_count' = request_count + 1
       /\ now' = now + RetryAfter(h)
       /\ slept' = Append(slept, [chunk |-> i, kind |-> "throttle",
                                  attempt |-> attempt, secs |-> RetryAfter(h)])
       /\ Continue
  /\ UNCHANGED <<rate_limit, max_jobs, last_request_time, jobs>>
  /\ UNCHANGED <<threadVars, storeVars, raceVars, searchVars, validVars>>

\* a 400 handled like a server error: backed off and retried
PostBadRequestRetried ==
  /\ pc = "post"
  /\ Len(jobs) + faults < MaxWork
  /\ faults' = faults + 1
  /\ Dispatch("400", None)
  /\ request_count' = request_count + 1
  /\ RetryOrRaise("Bad request", "bad_request")
  /\ UNCHANGED <<rate_limit, max_jobs, last_request_time, jobs>>
  /\ UNCHANGED <<threadVars, storeVars, raceVars, searchVars, validVars>>

PostBadRequest ==
  /\ pc = "post"
  /\ Len(jobs) + faults < MaxWork
  /\ faults' = faults + 1
  /\ Dispatch("400", None)
  /\ request_count' = request_count + 1
  /\ EndChunk(FailBatch(CurBatch, "Bad request"), "bad_request")
  /\ UNCHANGED <<rate_limit, max_jobs, last_request_time, now, jobs, slept>>
  /\ UNCHANGED <<threadVars, storeVars, raceVars, searchVars, validVars>>

PostApiError ==
  /\ pc = "post"
  /\ Len(jobs) + faults < MaxWork
  /\ faults' = faults + 1
  /\ Dispatch("500", None)
  /\ request_count' = request_count + 1
  /\ RetryOrRaise("API error", "api_error")
  /\ UNCHANGED <<rate_limit, max_jobs, last_request_time, jobs>>
  /\ UNCHANGED <<threadVars, storeVars, raceVars, searchVars, validVars>>

PostRequestException ==
  /\ pc = "post"
  /\ Len(jobs) + faults < MaxWork
  /\ faults' = faults + 1
  /\ Dispatch("exception", None)
  /\ RetryOrRaise("Request failed", "request_failed")
  /\ UNCHANGED <<rate_limit, max_jobs, request_count, last_request_time, jobs>>
  /\ UNCHANGED <<threadVars, storeVars, raceVars, searchVars, validVars>>

Next ==
  \/ MapJobs
  \/ WaitForRateLimit
  \/ PostOk
  \/ PostThrottled
  \/ PostBadRequest
  \/ PostApiError
  \/ PostRequestException

Spec == Init /\ [][Next]_vars

(***************************************************************************)
(* map_jobs with an oracle that answers every request with 200, and with   *)
(* time that passes between two chunks: the round trip of a request and    *)
(* the work on its results.                                                *)
(***************************************************************************)
MaxClock == 120

Elapse ==
  /\ pc = "wait"
  /\ now + (WINDOW - 1) <= MaxClock
  /\ now' = now + (WINDOW - 1)
  /\ UNCHANGED <<rate_limit, max_jobs, request_count, last_request_time, jobs, pc, i,
                 attempt, all_results, sent, slept, chunks, faults>>
  /\ UNCHANGED <<threadVars, storeVars, raceVars, searchVars, validVars>>

NextRolling ==
  \/ MapJobs
  \/ WaitForRateLimit
  \/ PostOk
  \/ Elapse

SpecRolling == Init /\ [][NextRolling]_vars

(***************************************************************************)
(* map_jobs with an oracle that answers every request with 200 and with    *)
(* entries of every shape.                                                 *)
(***************************************************************************)
PostOkAny == Post200(AllEntries)

NextEntries ==
  \/ MapJobs
  \/ WaitForRateLimit
  \/ PostOkAny

SpecEntries == Init /\ [][NextEntries]_vars

\* the interpreter runs map_jobs on: a step that can be taken is taken.  Every step
\* of map_jobs changes its position, which progress tells apart from stuttering.
progress == <<pc, i, attempt>>

SpecLive == Init /\ [][Next]_vars /\ WF_progress(Next)

(***************************************************************************)
(* Two callers sharing one client.  Each runs _make_request for requests   *)
(* that the oracle answers with 200 at the first attempt; the steps are    *)
(* the reads and writes of the limiter's attributes, which no lock guards. *)
(***************************************************************************)
MaxRequests == 2

InitConc ==
  /\ rate_limit \in 1..MaxRate
  /\ max_jobs = 1
  /\ request_count = 0
  /\ last_request_time = 0
  /\ now = WINDOW
  /\ jobs = <<>>
  /\ pc = "off"
  /\ i = 0
  /\ attempt = 0
  /\ all_results = <<>>
  /\ sent = <<>>
  /\ slept = <<>>
  /\ chunks = <<>>
  /\ faults = 0
  /\ tpc = [t \in Callers |-> "start"]
  /\ tloc = [t \in Callers |-> [current_time |-> 0, elapsed |-> 0, wake |-> 0,
                                 count |-> 0, done |-> 0]]
  /\ posted = <<>>
  /\ issued = 0
  /\ StoreIdle
  /\ RaceIdle
  /\ SearchIdle /\ ValidatorIdle

seqVars == <<rate_limit, max_jobs, jobs, pc, i, attempt, all_results, sent, slept,
             chunks, faults, storeVars, raceVars, searchVars, validVars>>

\* current_time = time.time(); elapsed = current_time - self._last_request_time
T_ReadClock(t) ==
  /\ tpc[t] = "start"
  /\ tloc' = [tloc EXCEPT ![t].current_time = now,
                          ![t].elapsed = now - last_request_time]
  /\ tpc' = [tpc EXCEPT ![t] = "check"]
  /\ UNCHANGED <<seqVars, request_count, last_request_time, now, posted, issued>>

\* if elapsed >= 60: reset and return
T_Reset(t) ==
  /\ tpc[t] = "check"
  /\ tloc[t].elapsed >= WINDOW
  /\ request_count' = 0
  /\ last_request_time' = tloc[t].current_time
  /\ issued' = 0
  /\ tpc' = [tpc EXCEPT ![t] = "post"]
  /\ UNCHANGED <<seqVars, now, tloc, posted>>

\* if self._request_count >= self._rate_limit: time.sleep(60 - elapsed)
T_AtLimit(t) ==
  /\ tpc[t] = "check"
  /\ tloc[t].elapsed < WINDOW
  /\ request_count >= rate_limit
  /\ tloc' = [tloc EXCEPT ![t].wake = now + (WINDOW - tloc[t].elapsed)]
  /\ tpc' = [tpc EXCEPT ![t] = "sleep"]
  /\ UNCHANGED <<seqVars, request_count, last_request_time, now, posted, issued>>

\* below the limit: _wait_for_rate_limit returns
T_BelowLimit(t) ==
  /\ tpc[t] = "check"
  /\ tloc[t].elapsed < WINDOW
  /\ request_count < rate_limit
  /\ tpc' = [tpc EXCEPT ![t] = "post"]
  /\ UNCHANGED <<seqVars, request_count, last_request_time, now, tloc, posted, issued>>

\* the sleep is over: self._request_count = 0; self._last_request_time = time.time()
T_Wake(t) ==
  /\ tpc[t] = "sleep"
  /\ now >= tloc[t].wake
  /\ request_count' = 0
  /\ last_request_time' = now
  /\ issued' = 0
  /\ tpc' = [tpc EXCEPT ![t] = "post"]
  /\ UNCHANGED <<seqVars, now, tloc, posted>>

\* self.session.post(...)
T_Post(t) ==
  /\ tpc[t] = "post"
  /\ posted' = Append(posted, [by |-> t, at |-> now])
  /\ issued' = issued + 1
  /\ tpc' = [tpc EXCEPT ![t] = "read_count"]
  /\ UNCHANGED <<seqVars, request_count, last_request_time, now, tloc>>

\* self._request_count += 1: the load
T_ReadCount(t) ==
  /\ tpc[t] = "read_count"
  /\ tloc' = [tloc EXCEPT ![t].count = request_count]
  /\ tpc' = [tpc EXCEPT ![t] = "write_count"]
  /\ UNCHANGED <<seqVars, request_count, last_request_time, now, posted, issued>>

\* self._request_count += 1: the store; the 200 response returns from _make_request
T_WriteCount(t) ==
  /\ tpc[t] = "write_count"
  /\ request_count' = tloc[t].count + 1
  /\ tloc' = [tloc EXCEPT ![t].done = tloc[t].done + 1]
  /\ tpc' = [tpc EXCEPT ![t] = IF tloc[t].done + 1 < MaxRequests THEN "start" ELSE "returned"]
  /\ UNCHANGED <<seqVars, last_request_time, now, posted, issued>>

\* time passes while callers sleep: up to the earliest wake-up
Tick ==
  /\ \E t \in Callers : tpc[t] = "sleep" /\ tloc[t].wake > now
  /\ \A t \in Callers : tpc[t] \in {"sleep", "returned"}
  /\ \E t \in Callers :
       /\ tpc[t] = "sleep"
       /\ tloc[t].wake > now
       /\ \A u \in Callers : (tpc[u] = "sleep" /\ tloc[u].wake > now) => tloc[t].wake <= tloc[u].wake
       /\ now' = tloc[t].wake
  /\ UNCHANGED <<seqVars, request_count, last_request_time, tpc, tloc, posted, issued>>

NextConc ==
  \/ \E t \in Callers : T_ReadClock(t)
  \/ \E t \in Callers : T_Reset(t)
  \/ \E t \in Callers : T_AtLimit(t)
  \/ \E t \in Callers : T_BelowLimit(t)
  \/ \E t \in Callers : T_Wake(t)
  \/ \E t \in Callers : T_Post(t)
  \/ \E t \in Callers : T_ReadCount(t)
  \/ \E t \in Callers : T_WriteCount(t)
  \/ Tick

SpecConc == InitConc /\ [][NextConc]_vars

(***************************************************************************)
(* SecurityMasterService over one connection, its calls made one after     *)
(* the other.  A call is one step: its statements run back to back and     *)
(* every path ends in a commit, a rollback or an exception.  The mapping   *)
(* client is seen through the MappingResult that map_identifier returns.   *)
(***************************************************************************)
MaxSteps == 2
MaxBatch == 2
MaxDays == 7

COOLDOWN_DAYS == 7

IDENTIFIER_TYPE_NORMALIZE ==
  ("ticker" :> "ticker") @@ ("TICKER" :> "ticker") @@
  ("cusip" :> "cusip") @@ ("CUSIP" :> "cusip") @@ ("ID_CUSIP" :> "cusip") @@
  ("isin" :> "isin") @@ ("ISIN" :> "isin") @@ ("ID_ISIN" :> "isin") @@
  ("sedol" :> "sedol") @@ ("SEDOL" :> "sedol") @@ ("ID_SEDOL" :> "sedol") @@
  ("figi" :> "figi") @@ ("FIGI" :> "figi") @@ ("ID_BB_GLOBAL" :> "figi") @@
  ("composite_figi" :> "composite_figi") @@ ("COMPOSITE_FIGI" :> "composite_figi")

\* str.lower(), on the type names the table does not hold
Lower(t) == IF t = "WKN" THEN "wkn" ELSE t

\* IDENTIFIER_TYPE_NORMALIZE.get(id_type, id_type.lower())
Normalize(t) ==
  IF t \in DOMAIN IDENTIFIER_TYPE_NORMALIZE THEN IDENTIFIER_TYPE_NORMALIZE[t] ELSE Lower(t)

SECURITY_TYPE_MAP ==
  ("Common Stock" :> "equity") @@ ("Preferred Stock" :> "equity") @@
  ("Depositary Receipt" :> "equity") @@ ("ETP" :> "fund") @@ ("REIT" :> "equity") @@
  ("Bond" :> "fixed_income") @@ ("Option" :> "option") @@ ("Future" :> "future") @@
  ("Warrant" :> "equity") @@ ("Index" :> "other") @@ ("Mutual Fund" :> "fund") @@
  ("Unit" :> "fund")

MARKET_SECTOR_MAP ==
  ("Equity" :> "equity") @@ ("Corp" :> "fixed_income") @@ ("Govt" :> "fixed_income") @@
  ("Mtge" :> "fixed_income") @@ ("Muni" :> "fixed_income") @@ ("Pfd" :> "equity") @@
  ("M-Mkt" :> "fixed_income") @@ ("Comdty" :> "commodity") @@ ("Curncy" :> "fx") @@
  ("Index" :> "other")

\* Python's truth value of an Optional[str]
Truthy(o) == o # None /\ o # Some("")

IDENTIFIER_TO_OPENFIGI ==
  ("ticker" :> "TICKER") @@ ("cusip" :> "ID_CUSIP") @@ ("isin" :> "ID_ISIN") @@
  ("sedol" :> "ID_SEDOL") @@ ("figi" :> "ID_BB_GLOBAL") @@
  ("composite_figi" :> "COMPOSITE_FIGI")

\* "Determine asset class" of _create_security_from_figi
AssetClass(figi_data) ==
  IF Truthy(figi_data.security_type)
  THEN IF figi_data.security_type[1] \in DOMAIN SECURITY_TYPE_MAP
       THEN SECURITY_TYPE_MAP[figi_data.security_type[1]] ELSE "other"
  ELSE IF Truthy(figi_data.market_sector)
  THEN IF figi_data.market_sector[1] \in DOMAIN MARKET_SECTOR_MAP
       THEN MARKET_SECTOR_MAP[figi_data.market_sector[1]] ELSE "other"
  ELSE "equity"

(***************************************************************************)
(* The arguments and the oracle's answers the model draws from.            *)
(***************************************************************************)
Queries ==
  { [id_type |-> "TICKER", id_value |-> "A", exchange |-> Some("US")],
    [id_type |-> "cusip", id_value |-> "C", exchange |-> None] }

Candidates ==
  { [figi |-> "K1", name |-> "N1", ticker |-> Some("A"), exch_code |-> Some("US"),
     composite_figi |-> Some("CK1"), security_type |-> Some("Common Stock"),
     market_sector |-> Some("Equity")],
    [figi |-> "K1", name |-> "N1", ticker |-> None, exch_code |-> None,
     composite_figi |-> None, security_type |-> None, market_sector |-> Some("Corp")],
    [figi |-> "K1", name |-> "N1", ticker |-> Some("A"), exch_code |-> Some("US"),
     composite_figi |-> None, security_type |-> Some("Common Stock"),
     market_sector |-> Some("Equity")],
    [figi |-> "K2", name |-> "N2", ticker |-> Some("A"), exch_code |-> None,
     composite_figi |-> None, security_type |-> None, market_sector |-> None] }

\* what map_identifier returns: a failed result, or a successful one with candidates
NoMatch == [success |-> FALSE, results |-> <<>>]
Matches == { [success |-> TRUE, results |-> <<c>>] : c \in Candidates }


(***************************************************************************)
(* The store before the first call: empty, or left by earlier calls with   *)
(* a deactivated security that still owns an identifier, or with that     *)
(* and a placeholder security.  No file of the repository declares *)
(* the tables: whether securities.figi carries a unique index is open, and *)
(* both schemas are modelled.                                              *)
(***************************************************************************)
Deactivated ==
  [id |-> 1, figi |-> Some("K1"), name |-> <<"N1">>, asset_class |-> "equity",
   is_active |-> FALSE, is_verified |-> TRUE, last_enriched_at |-> Some(0)]

Placeholder(id, id_type, id_value) ==
  [id |-> id, figi |-> None, name |-> <<"Unknown", id_type, id_value>>,
   asset_class |-> "other", is_active |-> TRUE, is_verified |-> FALSE,
   last_enriched_at |-> None]

IdentifierRow(security_id, id_type, id_value, exch, is_primary) ==
  [security_id |-> security_id, identifier_type |-> id_type, identifier_value |-> id_value,
   exchange_code |-> exch, is_primary |-> is_primary]

InitStore ==
  /\ rate_limit = 1
  /\ max_jobs = 1
  /\ request_count = 0
  /\ last_request_time = 0
  /\ now = WINDOW
  /\ jobs = <<>>
  /\ pc = "off"
  /\ i = 0
  /\ attempt = 0
  /\ all_results = <<>>
  /\ sent = <<>>
  /\ slept = <<>>
  /\ chunks = <<>>
  /\ faults = 0
  /\ ThreadsIdle
  /\ RaceIdle
  /\ SearchIdle /\ ValidatorIdle
  /\ \E old \in BOOLEAN, held \in BOOLEAN :
       LET first == IF old THEN << Deactivated >> ELSE <<>>
           firstIds == IF old
                       THEN << IdentifierRow(1, "ric", "R", None, FALSE),
                               IdentifierRow(1, "ticker", "A", Some("US"), FALSE),
                               IdentifierRow(1, "isin", "I", None, FALSE) >>
                       ELSE <<>>
           n == Len(first) + 1
       IN  /\ held => old
           /\ securities = first \o (IF held THEN << Placeholder(n, "cusip", "C") >> ELSE <<>>)
           /\ security_identifiers =
                firstIds \o (IF held THEN << IdentifierRow(n, "cusip", "C", None, TRUE) >>
                             ELSE <<>>)
           /\ next_id = Len(securities) + 1
  /\ figi_unique \in BOOLEAN
  /\ today = 0
  /\ tx_failed = FALSE
  /\ oracle_calls = 0
  /\ calls = <<>>
  /\ running = None
  /\ batches = <<>>
  /\ enrichments = <<>>

Range(f) == { f[x] : x \in DOMAIN f }

(***************************************************************************)
(* The queries of the service.  A SELECT ... LIMIT 1 without ORDER BY may  *)
(* return any matching row: each query gives the set of rows fetchone()    *)
(* may return, the empty set when it returns None.                         *)
(***************************************************************************)
\* a lookup for which a stored NULL exchange code matches no supplied exchange
LookupMatchesExact(r, id_type, id_value, exchange) ==
  /\ r.identifier_type = id_type
  /\ r.identifier_value = id_value
  /\ Truthy(exchange) => r.exchange_code = exchange

\* the WHERE clause on security_identifiers of _find_by_identifier
LookupMatches(r, id_type, id_value, exchange) ==
  /\ r.identifier_type = id_type
  /\ r.identifier_value = id_value
  /\ Truthy(exchange) => (r.exchange_code = exchange \/ r.exchange_code = None)

\* a lookup that leaves out "AND s.is_active = TRUE"
FindByIdentifierAny(id_type, id_value, exchange) ==
  { sec \in Range(securities) :
      \E r \in Range(security_identifiers) :
        r.security_id = sec.id /\ LookupMatches(r, id_type, id_value, exchange) }

FindByIdentifier(id_type, id_value, exchange) ==
  { sec \in Range(securities) :
      /\ sec.is_active
      /\ \E r \in Range(security_identifiers) :
           r.security_id = sec.id /\ LookupMatches(r, id_type, id_value, exchange) }

FindByFigi(figi) ==
  { sec \in Range(securities) : sec.figi = Some(figi) /\ sec.is_active }

\* ORDER BY is_primary DESC LIMIT 1
GetTicker(rows, security_id) ==
  LET mine == { r \in Range(rows) : r.security_id = security_id /\ r.identifier_type = "ticker" }
      best == { r \in mine : r.is_primary \/ \A o \in mine : ~o.is_primary }
  IN  IF mine = {} THEN { None } ELSE { Some(r.identifier_value) : r \in best }

\* the SELECT 1 of _create_security_from_figi: the same triple, NULL matching NULL
TripleExists(rows, id_type, id_value, exch) ==
  \E r \in Range(rows) :
    /\ r.identifier_type = id_type
    /\ r.identifier_value = id_value
    /\ r.exchange_code = exch

\* the unique index named by ON CONFLICT: NULL exchange codes never conflict
UniqueConflict(rows, id_type, id_value, exch) ==
  exch # None /\ TripleExists(rows, id_type, id_value, exch)

\* the unique index on securities.figi, where the schema has one
FigiTaken(figi) ==
  figi_unique /\ \E sec \in Range(securities) : sec.figi = Some(figi)

\* an _add_identifier that marks its row primary
AddIdentifierPrimary(rows, security_id, id_type, id_value, exch, raises) ==
  IF raises \/ UniqueConflict(rows, id_type, id_value, exch)
  THEN rows
  ELSE Append(rows, IdentifierRow(security_id, id_type, id_value, exch, TRUE))

\* an _add_identifier that never inserts
AddIdentifierNever(rows, security_id, id_type, id_value, exch, raises) == rows

\* _add_identifier: INSERT ... ON CONFLICT DO NOTHING; an exception is rolled back
AddIdentifier(rows, security_id, id_type, id_value, exch, raises) ==
  IF raises \/ UniqueConflict(rows, id_type, id_value, exch)
  THEN rows
  ELSE Append(rows, IdentifierRow(security_id, id_type, id_value, exch, FALSE))

\* a list that marks every identifier primary
IdentifiersToAddAllPrimary(figi_data, id_type, id_value, exchange) ==
  << [t |-> "figi", v |-> figi_data.figi, x |-> figi_data.exch_code, p |-> TRUE] >>
  \o (IF Truthy(figi_data.ticker)
      THEN << [t |-> "ticker", v |-> figi_data.ticker[1], x |-> figi_data.exch_code,
               p |-> TRUE] >>
      ELSE <<>>)
  \o (IF Truthy(figi_data.composite_figi)
      THEN << [t |-> "composite_figi", v |-> figi_data.composite_figi[1], x |-> None,
               p |-> TRUE] >>
      ELSE <<>>)
  \o << [t |-> id_type, v |-> id_value, x |-> exchange, p |-> TRUE] >>

\* identifiers_to_add of _create_security_from_figi
IdentifiersToAdd(figi_data, id_type, id_value, exchange) ==
  << [t |-> "figi", v |-> figi_data.figi, x |-> figi_data.exch_code, p |-> TRUE] >>
  \o (IF Truthy(figi_data.ticker)
      THEN << [t |-> "ticker", v |-> figi_data.ticker[1], x |-> figi_data.exch_code,
               p |-> FALSE] >>
      ELSE <<>>)
  \o (IF Truthy(figi_data.composite_figi)
      THEN << [t |-> "composite_figi", v |-> figi_data.composite_figi[1], x |-> None,
               p |-> FALSE] >>
      ELSE <<>>)
  \o << [t |-> id_type, v |-> id_value, x |-> exchange, p |-> FALSE] >>

\* a loop over identifiers_to_add that the first exception ends
RECURSIVE AddAllStopping(_, _, _, _, _)
AddAllStopping(rows, security_id, todo, k, fails) ==
  IF k > Len(todo) \/ k \in fails THEN rows
  ELSE LET e == todo[k] IN
    IF e.v = "" \/ TripleExists(rows, e.t, e.v, e.x)
    THEN AddAllStopping(rows, security_id, todo, k + 1, fails)
    ELSE AddAllStopping(Append(rows, IdentifierRow(security_id, e.t, e.v, e.x, e.p)),
                        security_id, todo, k + 1, fails)

\* the loop over identifiers_to_add: check, insert, commit; an exception is rolled back
RECURSIVE AddAll(_, _, _, _, _)
AddAll(rows, security_id, todo, k, fails) ==
  IF k > Len(todo) THEN rows
  ELSE LET e == todo[k] IN
    IF e.v = "" \/ TripleExists(rows, e.t, e.v, e.x) \/ k \in fails
    THEN AddAll(rows, security_id, todo, k + 1, fails)
    ELSE AddAll(Append(rows, IdentifierRow(security_id, e.t, e.v, e.x, e.p)),
                security_id, todo, k + 1, fails)

Resolved(sec, ticker, is_new, enriched) ==
  [security_id |-> sec.id, figi |-> sec.figi, name |-> sec.name, ticker |-> ticker,
   asset_class |-> sec.asset_class, is_new |-> is_new, enriched |-> enriched]

\* a placeholder that is returned as enriched
PlaceholderResultEnriched(sec, id_type, id_value) ==
  Resolved(sec, IF id_type = "ticker" THEN Some(id_value) ELSE None, TRUE, TRUE)

\* the ResolvedSecurity that _create_placeholder_security returns
PlaceholderResult(sec, id_type, id_value) ==
  Resolved(sec, IF id_type = "ticker" THEN Some(id_value) ELSE None, TRUE, FALSE)

Call(q, cim, oracle, fails, ret, raised) ==
  [args |-> q, create_if_missing |-> cim, oracle |-> oracle, fails |-> fails,
   ret |-> ret, raised |-> raised]

\* the operations made so far on the connection
Operations == Len(calls) + Len(enrichments)

RECURSIVE Raised(_)
Raised(log) ==
  IF log = <<>> THEN 0
  ELSE Cardinality(log[Len(log)].fails) + Raised(SubSeq(log, 1, Len(log) - 1))

\* what the run has spent of MaxSteps: the operations made on the connection, the
\* INSERTs that were made to raise, and the passing of time
Steps == Operations + Raised(calls) + Raised(enrichments) + (IF today > 0 THEN 1 ELSE 0)

\* the operations still to make: the one that starts, or the items that
\* resolve_identifiers has not processed
Pending == IF running = None THEN 1
           ELSE Len(running[1].identifiers) - (Len(calls) - running[1].from)

\* the positions among n INSERTs of one operation that are made to raise
FailSets(n) == { F \in SUBSET (1..n) : Steps + Pending + Cardinality(F) <= MaxSteps }

\* a caller may start an operation: none is running and the connection is usable
CanCall == running = None /\ ~tx_failed /\ Steps < MaxSteps

\* resolve_identifier(q, create_if_missing = cim) runs now: called on its own, or
\* by resolve_identifiers for the next item of its list
Runs(q, cim) ==
  IF running = None
  THEN CanCall
  ELSE /\ ~tx_failed
       /\ Len(calls) - running[1].from < Len(running[1].identifiers)
       /\ q = running[1].identifiers[Len(calls) - running[1].from + 1]
       /\ cim = running[1].create_if_missing

LocalMiss(q) == FindByIdentifier(Normalize(q.id_type), q.id_value, q.exchange) = {}

(***************************************************************************)
(* resolve_identifier, one action per path through it.                     *)
(***************************************************************************)
otherStoreVars == <<figi_unique, today, running, batches, enrichments>>

\* Step 1 finds the identifier in the local database
ResolveLocalHit ==
  /\ \E q \in Queries, cim \in BOOLEAN :
       /\ Runs(q, cim)
       /\ \E sec \in FindByIdentifier(Normalize(q.id_type), q.id_value, q.exchange) :
            \E ticker \in GetTicker(security_identifiers, sec.id) :
              calls' = Append(calls, Call(q, cim, None, {},
                                          Some(Resolved(sec, ticker, FALSE, FALSE)), FALSE))
  /\ UNCHANGED <<securities, security_identifiers, next_id, tx_failed, oracle_calls>>
  /\ UNCHANGED <<clientVars, threadVars, raceVars, searchVars, validVars, otherStoreVars>>

\* the oracle has no match and create_if_missing is false: return None
ResolveNotFound ==
  /\ \E q \in Queries :
       /\ Runs(q, FALSE)
       /\ LocalMiss(q)
       /\ calls' = Append(calls, Call(q, FALSE, Some(NoMatch), {}, None, FALSE))
  /\ oracle_calls' = oracle_calls + 1
  /\ UNCHANGED <<securities, security_identifiers, next_id, tx_failed>>
  /\ UNCHANGED <<clientVars, threadVars, raceVars, searchVars, validVars, otherStoreVars>>

\* a placeholder path that rolls a failed identifier INSERT back and returns all the same
ResolvePlaceholderSwallowing ==
  /\ \E q \in Queries, fails \in FailSets(1) :
       LET id_type == Normalize(q.id_type)
           sec == Placeholder(next_id, id_type, q.id_value)
           raises == 1 \in fails
                     \/ UniqueConflict(security_identifiers, id_type, q.id_value, q.exchange)
       IN  /\ Runs(q, TRUE)
           /\ LocalMiss(q)
           /\ calls' = Append(calls,
                Call(q, TRUE, Some(NoMatch), fails,
                     Some(PlaceholderResult(sec, id_type, q.id_value)), FALSE))
           /\ IF raises
              THEN UNCHANGED <<securities, security_identifiers, next_id>>
              ELSE /\ securities' = Append(securities, sec)
                   /\ security_identifiers' =
                        Append(security_identifiers,
                               IdentifierRow(sec.id, id_type, q.id_value, q.exchange, TRUE))
                   /\ next_id' = next_id + 1
           /\ UNCHANGED tx_failed
  /\ oracle_calls' = oracle_calls + 1
  /\ UNCHANGED <<clientVars, threadVars, raceVars, searchVars, validVars, otherStoreVars>>

\* _create_placeholder_security: both INSERTs, then one commit
ResolvePlaceholder ==
  /\ \E q \in Queries, fails \in FailSets(1) :
       LET id_type == Normalize(q.id_type)
           sec == Placeholder(next_id, id_type, q.id_value)
           raises == 1 \in fails
                     \/ UniqueConflict(security_identifiers, id_type, q.id_value, q.exchange)
       IN  /\ Runs(q, TRUE)
           /\ LocalMiss(q)
           /\ IF raises
              THEN /\ tx_failed' = TRUE
                   /\ calls' = Append(calls, Call(q, TRUE, Some(NoMatch), fails, None, TRUE))
                   /\ UNCHANGED <<securities, security_identifiers, next_id>>
              ELSE /\ securities' = Append(securities, sec)
                   /\ security_identifiers' =
                        Append(security_identifiers,
                               IdentifierRow(sec.id, id_type, q.id_value, q.exchange, TRUE))
                   /\ calls' = Append(calls,
                        Call(q, TRUE, Some(NoMatch), fails,
                             Some(PlaceholderResult(sec, id_type, q.id_value)), FALSE))
                   /\ next_id' = next_id + 1
                   /\ UNCHANGED tx_failed
  /\ oracle_calls' = oracle_calls + 1
  /\ UNCHANGED <<clientVars, threadVars, raceVars, searchVars, validVars, otherStoreVars>>

\* Step 3 finds the FIGI: the identifier is added to the existing security
ResolveExistingFigi ==
  /\ \E q \in Queries, cim \in BOOLEAN, m \in Matches, fails \in FailSets(1) :
       LET figi_data == m.results[1]
       IN  /\ Runs(q, cim)
           /\ LocalMiss(q)
           /\ \E sec \in FindByFigi(figi_data.figi) :
                LET after == AddIdentifier(security_identifiers, sec.id,
                                           Normalize(q.id_type), q.id_value, q.exchange,
                                           1 \in fails)
                IN  /\ security_identifiers' = after
                    /\ \E ticker \in (IF Truthy(figi_data.ticker) THEN { figi_data.ticker }
                                      ELSE GetTicker(after, sec.id)) :
                         calls' = Append(calls,
                           Call(q, cim, Some(m), fails,
                                Some(Resolved(sec, ticker, FALSE, TRUE)), FALSE))
  /\ oracle_calls' = oracle_calls + 1
  /\ UNCHANGED <<securities, next_id, tx_failed>>
  /\ UNCHANGED <<clientVars, threadVars, raceVars, searchVars, validVars, otherStoreVars>>

\* a Step 4 that creates the security whatever create_if_missing says
ResolveNoCreateCreates ==
  /\ \E q \in Queries, m \in Matches :
       LET sec == [id |-> next_id, figi |-> Some(m.results[1].figi),
                   name |-> <<m.results[1].name>>, asset_class |-> AssetClass(m.results[1]),
                   is_active |-> TRUE, is_verified |-> TRUE, last_enriched_at |-> Some(today)]
       IN  /\ Runs(q, FALSE)
           /\ LocalMiss(q)
           /\ FindByFigi(m.results[1].figi) = {}
           /\ securities' = Append(securities, sec)
           /\ calls' = Append(calls, Call(q, FALSE, Some(m), {},
                                          Some(Resolved(sec, None, TRUE, TRUE)), FALSE))
  /\ oracle_calls' = oracle_calls + 1
  /\ UNCHANGED <<security_identifiers, next_id, tx_failed>>
  /\ UNCHANGED <<clientVars, threadVars, raceVars, searchVars, validVars, otherStoreVars>>

\* Step 4 with create_if_missing false: return None
ResolveNoCreate ==
  /\ \E q \in Queries, m \in Matches :
       /\ Runs(q, FALSE)
       /\ LocalMiss(q)
       /\ FindByFigi(m.results[1].figi) = {}
       /\ calls' = Append(calls, Call(q, FALSE, Some(m), {}, None, FALSE))
  /\ oracle_calls' = oracle_calls + 1
  /\ UNCHANGED <<securities, security_identifiers, next_id, tx_failed>>
  /\ UNCHANGED <<clientVars, threadVars, raceVars, searchVars, validVars, otherStoreVars>>

\* _create_security_from_figi: INSERT the security, commit, then the identifiers
ResolveCreate ==
  /\ \E q \in Queries, m \in Matches :
       LET figi_data == m.results[1]
           id_type == Normalize(q.id_type)
           todo == IdentifiersToAdd(figi_data, id_type, q.id_value, q.exchange)
           sec == [id |-> next_id, figi |-> Some(figi_data.figi),
                   name |-> <<figi_data.name>>, asset_class |-> AssetClass(figi_data),
                   is_active |-> TRUE, is_verified |-> TRUE, last_enriched_at |-> Some(today)]
       IN  /\ Runs(q, TRUE)
           /\ LocalMiss(q)
           /\ FindByFigi(figi_data.figi) = {}
           /\ IF FigiTaken(figi_data.figi)
              THEN /\ tx_failed' = TRUE
                   /\ calls' = Append(calls, Call(q, TRUE, Some(m), {}, None, TRUE))
                   /\ UNCHANGED <<securities, security_identifiers, next_id>>
              ELSE \E fails \in FailSets(Len(todo)) :
                     /\ securities' = Append(securities, sec)
                     /\ security_identifiers' =
                          AddAll(security_identifiers, sec.id, todo, 1, fails)
                     /\ calls' = Append(calls,
                          Call(q, TRUE, Some(m), fails,
                               Some(Resolved(sec, figi_data.ticker, TRUE, TRUE)), FALSE))
                     /\ next_id' = next_id + 1
                     /\ UNCHANGED tx_failed
  /\ oracle_calls' = oracle_calls + 1
  /\ UNCHANGED <<clientVars, threadVars, raceVars, searchVars, validVars, otherStoreVars>>

\* the caller that caught the exception rolls the connection back
CallerRollback ==
  /\ running = None
  /\ tx_failed
  /\ tx_failed' = FALSE
  /\ UNCHANGED <<securities, security_identifiers, next_id, oracle_calls, calls>>
  /\ UNCHANGED <<clientVars, threadVars, raceVars, searchVars, validVars, otherStoreVars>>

(***************************************************************************)
(* resolve_identifiers: resolve_identifier for each item in turn, an       *)
(* exception caught and answered with None.  Nothing rolls the connection  *)
(* back: after an exception of the store the transaction stays aborted and *)
(* the first statement of every later item raises.                         *)
(***************************************************************************)
ResolveIdentifiers ==
  /\ CanCall
  /\ \E n \in 1..MaxBatch, cim \in BOOLEAN :
       /\ Steps + n <= MaxSteps
       /\ \E identifiers \in SeqsOfLen(Queries, n) :
            running' = Some([identifiers |-> identifiers, create_if_missing |-> cim,
                           from |-> Len(calls)])
  /\ UNCHANGED <<securities, security_identifiers, next_id, tx_failed, oracle_calls, calls,
                 figi_unique, today, batches, enrichments>>
  /\ UNCHANGED <<clientVars, threadVars, raceVars, searchVars, validVars>>

\* an item processed on the aborted transaction: _find_by_identifier raises
ItemOnAbortedTransaction ==
  /\ running # None
  /\ tx_failed
  /\ Len(calls) - running[1].from < Len(running[1].identifiers)
  /\ calls' = Append(calls,
       Call(running[1].identifiers[Len(calls) - running[1].from + 1],
            running[1].create_if_missing, None, {}, None, TRUE))
  /\ UNCHANGED <<securities, security_identifiers, next_id, tx_failed, oracle_calls>>
  /\ UNCHANGED <<clientVars, threadVars, raceVars, searchVars, validVars, otherStoreVars>>

\* a return that leaves the failed items out of the list
ReturnResultsDroppingFailures ==
  /\ running # None
  /\ Len(calls) - running[1].from = Len(running[1].identifiers)
  /\ batches' = Append(batches,
       [identifiers |-> running[1].identifiers,
        create_if_missing |-> running[1].create_if_missing,
        from |-> running[1].from,
        results |-> SelectSeq([k \in 1..Len(running[1].identifiers) |->
                                 calls[running[1].from + k].ret],
                              LAMBDA r : r # None)])
  /\ running' = None
  /\ UNCHANGED <<securities, security_identifiers, next_id, tx_failed, oracle_calls, calls,
                 figi_unique, today, enrichments>>
  /\ UNCHANGED <<clientVars, threadVars, raceVars, searchVars, validVars>>

\* return results
ReturnResults ==
  /\ running # None
  /\ Len(calls) - running[1].from = Len(running[1].identifiers)
  /\ batches' = Append(batches,
       [identifiers |-> running[1].identifiers,
        create_if_missing |-> running[1].create_if_missing,
        from |-> running[1].from,
        results |-> [k \in 1..Len(running[1].identifiers) |-> calls[running[1].from + k].ret]])
  /\ running' = None
  /\ UNCHANGED <<securities, security_identifiers, next_id, tx_failed, oracle_calls, calls,
                 figi_unique, today, enrichments>>
  /\ UNCHANGED <<clientVars, threadVars, raceVars, searchVars, validVars>>

(***************************************************************************)
(* enrich_security.  The clock counts days; last_enriched_at holds the day *)
(* of NOW().                                                               *)
(***************************************************************************)
\* a cool-down that never applies
RecentlyEnrichedNever(security) == FALSE

\* "If already has FIGI and was recently enriched, skip"
RecentlyEnriched(security) ==
  /\ security.figi # None
  /\ security.last_enriched_at # None
  /\ security.last_enriched_at[1] > today - COOLDOWN_DAYS

\* a guard that lets the UPDATE replace a FIGI
LacksFigiAlways(security) == TRUE

\* not security.get("figi")
LacksFigi(security) == ~Truthy(security.figi)

\* a loop that queries the oracle with every identifier of the security
MappableAll(security_id) ==
  { k \in 1..Len(security_identifiers) :
      security_identifiers[k].security_id = security_id }

\* the identifiers of the security that IDENTIFIER_TO_OPENFIGI maps to an oracle type
Mappable(security_id) ==
  { k \in 1..Len(security_identifiers) :
      /\ security_identifiers[k].security_id = security_id
      /\ security_identifiers[k].identifier_type \in DOMAIN IDENTIFIER_TO_OPENFIGI }

\* the rows that the loop queries the oracle with, in the order of fetchall(): the
\* first n of Mappable
Queried(security_id, n) ==
  SelectSeq([k \in 1..Len(security_identifiers) |-> k],
            LAMBDA k : /\ k \in Mappable(security_id)
                       /\ Cardinality({ r \in Mappable(security_id) : r <= k }) <= n)

\* the _add_identifier calls of enrich_security, in order
EnrichAdds(figi_data) ==
  (IF Truthy(figi_data.ticker)
   THEN << [t |-> "ticker", v |-> figi_data.ticker[1], x |-> figi_data.exch_code] >>
   ELSE <<>>)
  \o (IF Truthy(figi_data.composite_figi)
      THEN << [t |-> "composite_figi", v |-> figi_data.composite_figi[1], x |-> None] >>
      ELSE <<>>)

RECURSIVE AddEach(_, _, _, _, _)
AddEach(rows, security_id, adds, k, fails) ==
  IF k > Len(adds) THEN rows
  ELSE AddEach(AddIdentifier(rows, security_id, adds[k].t, adds[k].v, adds[k].x, k \in fails),
               security_id, adds, k + 1, fails)

\* what an enrich_security call leaves behind: the rows it queried the oracle with,
\* the answer to the last query, the INSERTs that raised, the result
Enrichment(security_id, queried, oracle, fails, ret, raised) ==
  [security_id |-> security_id, queried |-> queried, oracle |-> oracle, fails |-> fails,
   ret |-> ret, raised |-> raised]

\* the security does not exist, or is skipped: return False
EnrichSkips ==
  /\ CanCall
  /\ \E security_id \in 0..Len(securities) :
       /\ \/ security_id = 0
          \/ security_id > 0 /\ RecentlyEnriched(securities[security_id])
       /\ enrichments' = Append(enrichments, Enrichment(security_id, <<>>, None, {}, FALSE, FALSE))
  /\ UNCHANGED <<securities, security_identifiers, next_id, tx_failed, oracle_calls, calls,
                 figi_unique, today, running, batches>>
  /\ UNCHANGED <<clientVars, threadVars, raceVars, searchVars, validVars>>

\* no identifier of the security gets a match: return False
EnrichNoMatch ==
  /\ CanCall
  /\ \E security_id \in 1..Len(securities) :
       /\ ~RecentlyEnriched(securities[security_id])
       /\ oracle_calls' = oracle_calls + Cardinality(Mappable(security_id))
       /\ enrichments' = Append(enrichments,
                                Enrichment(security_id,
                                           Queried(security_id, Len(security_identifiers)),
                                           IF Mappable(security_id) = {} THEN None
                                           ELSE Some(NoMatch),
                                           {}, FALSE, FALSE))
  /\ UNCHANGED <<securities, security_identifiers, next_id, tx_failed, calls,
                 figi_unique, today, running, batches>>
  /\ UNCHANGED <<clientVars, threadVars, raceVars, searchVars, validVars>>

\* an identifier gets a match: "Update security with FIGI data"
EnrichUpdates ==
  /\ CanCall
  /\ \E security_id \in 1..Len(securities), m \in Matches,
        lookups \in 1..Len(security_identifiers) :
       LET security == securities[security_id]
           figi_data == m.results[1]
           adds == EnrichAdds(figi_data)
           queried == Queried(security_id, lookups)
       IN  /\ ~RecentlyEnriched(security)
           /\ lookups <= Cardinality(Mappable(security_id))
           /\ oracle_calls' = oracle_calls + lookups
           /\ IF LacksFigi(security) /\ FigiTaken(figi_data.figi)
              THEN \* the UPDATE violates the unique index: the exception leaves the call
                   /\ tx_failed' = TRUE
                   /\ enrichments' = Append(enrichments,
                        Enrichment(security_id, queried, Some(m), {}, FALSE, TRUE))
                   /\ UNCHANGED <<securities, security_identifiers>>
              ELSE \E fails \in FailSets(Len(adds)) :
                     LET \* the UPDATE of figi is committed by the next commit, and is
                         \* undone by the rollback of an _add_identifier that comes first
                         figi_set == LacksFigi(security) /\ 1 \notin fails
                         enriched == LacksFigi(security) \/ adds # <<>>
                     IN  /\ security_identifiers' =
                              AddEach(security_identifiers, security_id, adds, 1, fails)
                         /\ securities' =
                              IF enriched
                              THEN [securities EXCEPT
                                      ![security_id].figi =
                                         IF figi_set THEN Some(figi_data.figi) ELSE @,
                                      ![security_id].last_enriched_at = Some(today),
                                      ![security_id].is_verified = TRUE]
                              ELSE securities
                         /\ enrichments' = Append(enrichments,
                              Enrichment(security_id, queried, Some(m), fails, enriched, FALSE))
                         /\ UNCHANGED tx_failed
  /\ UNCHANGED <<next_id, calls, figi_unique, today, running, batches>>
  /\ UNCHANGED <<clientVars, threadVars, raceVars, searchVars, validVars>>

\* days pass between two operations: the cool-down, or one day less
PassTime ==
  /\ running = None
  /\ today > 0 \/ Steps < MaxSteps
  /\ \E d \in {COOLDOWN_DAYS - 1, COOLDOWN_DAYS} :
       /\ today + d <= MaxDays
       /\ today' = today + d
  /\ UNCHANGED <<securities, security_identifiers, next_id, tx_failed, oracle_calls, calls,
                 figi_unique, running, batches, enrichments>>
  /\ UNCHANGED <<clientVars, threadVars, raceVars, searchVars, validVars>>

NextStore ==
  \/ ResolveLocalHit
  \/ ResolveNotFound
  \/ ResolvePlaceholder
  \/ ResolveExistingFigi
  \/ ResolveNoCreate
  \/ ResolveCreate
  \/ CallerRollback
  \/ ResolveIdentifiers
  \/ ItemOnAbortedTransaction
  \/ ReturnResults
  \/ EnrichSkips
  \/ EnrichNoMatch
  \/ EnrichUpdates
  \/ PassTime

SpecStore == InitStore /\ [][NextStore]_vars

(***************************************************************************)
(* Two resolve_identifier calls for the same identifier, each on a         *)
(* connection of its own.  A statement reads what has been committed when  *)
(* it runs (READ COMMITTED); an INSERT and the commit that follows it are  *)
(* one step.  rpc is the position of a caller in resolve_identifier, rloc  *)
(* its locals.                                                             *)
(***************************************************************************)
RaceLocals(q, m) ==
  [q |-> q, figi_data |-> m.results[1], missed |-> FALSE, security_id |-> 0, k |-> 0,
   ret |-> None, raised |-> FALSE]

InitRace ==
  /\ rate_limit = 1
  /\ max_jobs = 1
  /\ request_count = 0
  /\ last_request_time = 0
  /\ now = WINDOW
  /\ jobs = <<>>
  /\ pc = "off"
  /\ i = 0
  /\ attempt = 0
  /\ all_results = <<>>
  /\ sent = <<>>
  /\ slept = <<>>
  /\ chunks = <<>>
  /\ faults = 0
  /\ ThreadsIdle
  /\ SearchIdle /\ ValidatorIdle
  /\ securities = <<>>
  /\ security_identifiers = <<>>
  /\ next_id = 1
  /\ figi_unique \in BOOLEAN
  /\ today = 0
  /\ tx_failed = FALSE
  /\ oracle_calls = 0
  /\ calls = <<>>
  /\ running = None
  /\ batches = <<>>
  /\ enrichments = <<>>
  /\ rpc = [t \in Callers |-> "lookup"]
  /\ \E q \in Queries, m \in Matches : rloc = [t \in Callers |-> RaceLocals(q, m)]

raceRest == <<tx_failed, calls, figi_unique, today, running, batches, enrichments>>

\* identifiers_to_add of the caller
RaceTodo(t) ==
  IdentifiersToAdd(rloc[t].figi_data, Normalize(rloc[t].q.id_type), rloc[t].q.id_value,
                   rloc[t].q.exchange)

\* Step 1 finds the identifier: return the security
RaceLocalHit(t) ==
  /\ rpc[t] = "lookup"
  /\ \E sec \in FindByIdentifier(Normalize(rloc[t].q.id_type), rloc[t].q.id_value,
                                 rloc[t].q.exchange) :
       rloc' = [rloc EXCEPT ![t].ret = Some(sec.id)]
  /\ rpc' = [rpc EXCEPT ![t] = "done"]
  /\ UNCHANGED <<securities, security_identifiers, next_id, oracle_calls, raceRest>>
  /\ UNCHANGED <<clientVars, threadVars, searchVars, validVars>>

\* Step 1 misses, Step 2 gets figi_data from the oracle
RaceLocalMiss(t) ==
  /\ rpc[t] = "lookup"
  /\ LocalMiss(rloc[t].q)
  /\ rloc' = [rloc EXCEPT ![t].missed = TRUE]
  /\ oracle_calls' = oracle_calls + 1
  /\ rpc' = [rpc EXCEPT ![t] = "find_figi"]
  /\ UNCHANGED <<securities, security_identifiers, next_id, raceRest>>
  /\ UNCHANGED <<clientVars, threadVars, searchVars, validVars>>

\* Step 3: _find_by_figi
RaceFindFigi(t) ==
  /\ rpc[t] = "find_figi"
  /\ IF FindByFigi(rloc[t].figi_data.figi) # {}
     THEN \E sec \in FindByFigi(rloc[t].figi_data.figi) :
            /\ rloc' = [rloc EXCEPT ![t].security_id = sec.id]
            /\ rpc' = [rpc EXCEPT ![t] = "attach"]
     ELSE /\ rpc' = [rpc EXCEPT ![t] = "insert"]
          /\ UNCHANGED rloc
  /\ UNCHANGED <<securities, security_identifiers, next_id, oracle_calls, raceRest>>
  /\ UNCHANGED <<clientVars, threadVars, searchVars, validVars>>

\* Step 3 found the security: _add_identifier and return it
RaceAttach(t) ==
  /\ rpc[t] = "attach"
  /\ security_identifiers' =
       AddIdentifier(security_identifiers, rloc[t].security_id,
                     Normalize(rloc[t].q.id_type), rloc[t].q.id_value, rloc[t].q.exchange,
                     FALSE)
  /\ rloc' = [rloc EXCEPT ![t].ret = Some(rloc[t].security_id)]
  /\ rpc' = [rpc EXCEPT ![t] = "done"]
  /\ UNCHANGED <<securities, next_id, oracle_calls, raceRest>>
  /\ UNCHANGED <<clientVars, threadVars, searchVars, validVars>>

\* Step 4: INSERT INTO securities and commit; the INSERT raises on a unique index
RaceInsertSecurity(t) ==
  /\ rpc[t] = "insert"
  /\ IF FigiTaken(rloc[t].figi_data.figi)
     THEN /\ rloc' = [rloc EXCEPT ![t].raised = TRUE]
          /\ rpc' = [rpc EXCEPT ![t] = "done"]
          /\ UNCHANGED <<securities, next_id>>
     ELSE /\ securities' = Append(securities,
               [id |-> next_id, figi |-> Some(rloc[t].figi_data.figi),
                name |-> <<rloc[t].figi_data.name>>,
                asset_class |-> AssetClass(rloc[t].figi_data),
                is_active |-> TRUE, is_verified |-> TRUE, last_enriched_at |-> Some(today)])
          /\ next_id' = next_id + 1
          /\ rloc' = [rloc EXCEPT ![t].security_id = next_id, ![t].k = 1]
          /\ rpc' = [rpc EXCEPT ![t] = "check"]
  /\ UNCHANGED <<security_identifiers, oracle_calls, raceRest>>
  /\ UNCHANGED <<clientVars, threadVars, searchVars, validVars>>

\* the loop goes to the next of identifiers_to_add, or the call returns the new security
RaceAdvance(t) ==
  IF rloc[t].k < Len(RaceTodo(t))
  THEN /\ rloc' = [rloc EXCEPT ![t].k = @ + 1]
       /\ rpc' = [rpc EXCEPT ![t] = "check"]
  ELSE /\ rloc' = [rloc EXCEPT ![t].ret = Some(rloc[t].security_id)]
       /\ rpc' = [rpc EXCEPT ![t] = "done"]

\* "Check if identifier already exists"
RaceCheck(t) ==
  /\ rpc[t] = "check"
  /\ LET e == RaceTodo(t)[rloc[t].k]
     IN  IF e.v = "" \/ TripleExists(security_identifiers, e.t, e.v, e.x)
         THEN RaceAdvance(t)
         ELSE /\ rpc' = [rpc EXCEPT ![t] = "add"]
              /\ UNCHANGED rloc
  /\ UNCHANGED <<securities, security_identifiers, next_id, oracle_calls, raceRest>>
  /\ UNCHANGED <<clientVars, threadVars, searchVars, validVars>>

\* the INSERT of the identifier and its commit; a unique violation is caught
RaceAdd(t) ==
  /\ rpc[t] = "add"
  /\ LET e == RaceTodo(t)[rloc[t].k]
     IN  security_identifiers' =
           IF UniqueConflict(security_identifiers, e.t, e.v, e.x)
           THEN security_identifiers
           ELSE Append(security_identifiers,
                       IdentifierRow(rloc[t].security_id, e.t, e.v, e.x, e.p))
  /\ RaceAdvance(t)
  /\ UNCHANGED <<securities, next_id, oracle_calls, raceRest>>
  /\ UNCHANGED <<clientVars, threadVars, searchVars, validVars>>

NextRace ==
  \E t \in Callers :
    \/ RaceLocalHit(t)
    \/ RaceLocalMiss(t)
    \/ RaceFindFigi(t)
    \/ RaceAttach(t)
    \/ RaceInsertSecurity(t)
    \/ RaceCheck(t)
    \/ RaceAdd(t)

SpecRace == InitRace /\ [][NextRace]_vars

(***************************************************************************)
(* _create_security_from_figi for every pair of labels a candidate can     *)
(* carry: no label, an empty label, each label of the table, and a label   *)
(* that the table does not have.                                           *)
(***************************************************************************)
SecurityTypes ==
  { None, Some(""), Some("ADR") } \cup { Some(l) : l \in DOMAIN SECURITY_TYPE_MAP }

MarketSectors ==
  { None, Some(""), Some("Unknown") } \cup { Some(l) : l \in DOMAIN MARKET_SECTOR_MAP }

LabelledCandidates ==
  { [figi |-> "K1", name |-> "N1", ticker |-> Some("A"), exch_code |-> Some("US"),
     composite_figi |-> None, security_type |-> st, market_sector |-> ms] :
    st \in SecurityTypes, ms \in MarketSectors }

InitCreate ==
  /\ rate_limit = 1
  /\ max_jobs = 1
  /\ request_count = 0
  /\ last_request_time = 0
  /\ now = WINDOW
  /\ jobs = <<>>
  /\ pc = "off"
  /\ i = 0
  /\ attempt = 0
  /\ all_results = <<>>
  /\ sent = <<>>
  /\ slept = <<>>
  /\ chunks = <<>>
  /\ faults = 0
  /\ ThreadsIdle
  /\ StoreIdle
  /\ RaceIdle
  /\ SearchIdle /\ ValidatorIdle

\* resolve_identifier on the empty store: Step 4 creates the security from the candidate
CreateSecurityFromFigi ==
  /\ calls = <<>>
  /\ \E q \in Queries, figi_data \in LabelledCandidates :
       LET todo == IdentifiersToAdd(figi_data, Normalize(q.id_type), q.id_value, q.exchange)
           sec == [id |-> next_id, figi |-> Some(figi_data.figi),
                   name |-> <<figi_data.name>>, asset_class |-> AssetClass(figi_data),
                   is_active |-> TRUE, is_verified |-> TRUE, last_enriched_at |-> Some(today)]
       IN  /\ LocalMiss(q)
           /\ FindByFigi(figi_data.figi) = {}
           /\ securities' = Append(securities, sec)
           /\ security_identifiers' = AddAll(security_identifiers, sec.id, todo, 1, {})
           /\ calls' = Append(calls,
                Call(q, TRUE, Some([success |-> TRUE, results |-> <<figi_data>>]), {},
                     Some(Resolved(sec, figi_data.ticker, TRUE, TRUE)), FALSE))
  /\ next_id' = next_id + 1
  /\ oracle_calls' = oracle_calls + 1
  /\ UNCHANGED tx_failed
  /\ UNCHANGED <<clientVars, threadVars, raceVars, searchVars, validVars, otherStoreVars>>

NextCreate == CreateSecurityFromFigi

SpecCreate == InitCreate /\ [][NextCreate]_vars

(***************************************************************************)
(* _find_by_identifier on its own: a store of two securities, each active  *)
(* or not, that own up to MaxRows identifiers of type ticker under the     *)
(* exchange codes NULL, US and LN, and one lookup of the ticker A with no  *)
(* exchange, with the empty string and with US.                            *)
(***************************************************************************)
MaxRows == 2

StoredExchanges == { None, Some("US"), Some("LN") }

SuppliedExchanges == { None, Some(""), Some("US") }

StoredTickers ==
  { IdentifierRow(security_id, "ticker", v, x, FALSE) :
      security_id \in 1..2, v \in {"A", "B"}, x \in StoredExchanges }

InitLookup ==
  /\ rate_limit = 1
  /\ max_jobs = 1
  /\ request_count = 0
  /\ last_request_time = 0
  /\ now = WINDOW
  /\ jobs = <<>>
  /\ pc = "off"
  /\ i = 0
  /\ attempt = 0
  /\ all_results = <<>>
  /\ sent = <<>>
  /\ slept = <<>>
  /\ chunks = <<>>
  /\ faults = 0
  /\ ThreadsIdle
  /\ RaceIdle
  /\ SearchIdle /\ ValidatorIdle
  /\ \E first \in BOOLEAN, second \in BOOLEAN :
       securities = << [Placeholder(1, "ticker", "A") EXCEPT !.is_active = first],
                       [Placeholder(2, "ticker", "A") EXCEPT !.is_active = second] >>
  /\ \E n \in 0..MaxRows :
       /\ security_identifiers \in SeqsOfLen(StoredTickers, n)
       /\ \A a, b \in 1..n :
            (a # b /\ security_identifiers[a].exchange_code # None)
            => <<security_identifiers[a].identifier_value,
                 security_identifiers[a].exchange_code>>
               # <<security_identifiers[b].identifier_value,
                   security_identifiers[b].exchange_code>>
  /\ next_id = 3
  /\ tx_failed = FALSE
  /\ oracle_calls = 0
  /\ calls = <<>>
  /\ figi_unique = FALSE
  /\ today = 0
  /\ running = None
  /\ batches = <<>>
  /\ enrichments = <<>>

\* _find_by_identifier("ticker", "A", exchange): fetchone() gives a row or None
FindByIdentifierCalled ==
  /\ calls = <<>>
  /\ \E exchange \in SuppliedExchanges :
       LET found == FindByIdentifier("ticker", "A", exchange)
       IN  \E ret \in (IF found = {} THEN { None } ELSE { Some(sec) : sec \in found }) :
             calls' = << [id_type |-> "ticker", id_value |-> "A", exchange |-> exchange,
                          ret |-> ret] >>
  /\ UNCHANGED <<securities, security_identifiers, next_id, tx_failed, oracle_calls>>
  /\ UNCHANGED <<clientVars, threadVars, raceVars, searchVars, validVars, otherStoreVars>>

NextLookup == FindByIdentifierCalled

SpecLookup == InitLookup /\ [][NextLookup]_vars

(***************************************************************************)
(* search: one consultation of the limiter, one request, no retry.  The    *)
(* JSON body of a 200 is a dictionary whose "data" key, when it is there,  *)
(* holds a list of items; item k stands for the k-th dictionary of it.     *)
(***************************************************************************)
MaxSearches == 2
MaxLimit == 2
MaxItems == 3

\* data[:limit], for a limit that is not negative
Slice(data, limit) == SubSeq(data, 1, Min(limit, Len(data)))

\* the bodies of a 200: without a "data" key, or with a list of items
SearchBodies == { None } \cup { Some([k \in 1..n |-> k]) : n \in 0..MaxItems }

\* data.get("data", [])
DataOf(body) == IF body = None THEN <<>> ELSE body[1]

\* the loop over data.get("data", [])[:limit]
SearchResults(body, limit) ==
  [k \in 1..Len(Slice(DataOf(body), limit)) |->
     FromApiResponse(Slice(DataOf(body), limit)[k], None)]

InitSearch ==
  /\ rate_limit \in 1..MaxRate
  /\ max_jobs = 1
  /\ request_count = 0
  /\ last_request_time = 0
  /\ now = WINDOW
  /\ jobs = <<>>
  /\ pc = "off"
  /\ i = 0
  /\ attempt = 0
  /\ all_results = <<>>
  /\ sent = <<>>
  /\ slept = <<>>
  /\ chunks = <<>>
  /\ faults = 0
  /\ ThreadsIdle
  /\ StoreIdle
  /\ RaceIdle
  /\ SearchIdle /\ ValidatorIdle

searchRest == <<rate_limit, max_jobs, jobs, pc, i, attempt, all_results, chunks, faults>>

\* search is called: self._wait_for_rate_limit()
Search ==
  /\ searching = None
  /\ Len(searches) < MaxSearches
  /\ IF Elapsed >= WINDOW
     THEN /\ request_count' = 0
          /\ last_request_time' = now
          /\ UNCHANGED <<now, slept>>
     ELSE IF request_count >= rate_limit
     THEN /\ now' = now + (WINDOW - Elapsed)
          /\ slept' = Append(slept, [chunk |-> 0, kind |-> "limit",
                                     attempt |-> 0, secs |-> WINDOW - Elapsed])
          /\ request_count' = 0
          /\ last_request_time' = now'
     ELSE UNCHANGED <<request_count, last_request_time, now, slept>>
  /\ \E limit \in 0..MaxLimit :
       searching' = Some([limit |-> limit, sent |-> Len(sent), slept |-> Len(slept),
                          count |-> request_count'])
  /\ UNCHANGED <<searchRest, sent, searches>>
  /\ UNCHANGED <<threadVars, storeVars, raceVars, validVars>>

\* what search leaves behind when it returns
Searched(resp, body, ret) ==
  [limit |-> searching[1].limit, resp |-> resp, body |-> body, ret |-> ret,
   raised |-> FALSE,
   requests |-> Len(sent') - searching[1].sent,
   waits |-> Len(slept) - searching[1].slept,
   counted |-> request_count' - searching[1].count]

\* status 200: the first `limit` items of the body
SearchOk ==
  /\ searching # None
  /\ \E body \in SearchBodies :
       /\ Dispatch("200", body)
       /\ request_count' = request_count + 1
       /\ searches' = Append(searches,
            Searched("200", body, SearchResults(body, searching[1].limit)))
  /\ searching' = None
  /\ UNCHANGED <<searchRest, last_request_time, now, slept>>
  /\ UNCHANGED <<threadVars, storeVars, raceVars, validVars>>

\* any other status: "Search failed", return []
SearchFailed ==
  /\ searching # None
  /\ \E status \in {"429", "400", "500"} :
       /\ Dispatch(status, None)
       /\ request_count' = request_count + 1
       /\ searches' = Append(searches, Searched(status, None, <<>>))
  /\ searching' = None
  /\ UNCHANGED <<searchRest, last_request_time, now, slept>>
  /\ UNCHANGED <<threadVars, storeVars, raceVars, validVars>>

\* requests.RequestException: "Search request failed", return []
SearchRequestException ==
  /\ searching # None
  /\ Dispatch("exception", None)
  /\ UNCHANGED <<searchRest, request_count, last_request_time, now, slept>>
  /\ searches' = Append(searches, Searched("exception", None, <<>>))
  /\ searching' = None
  /\ UNCHANGED <<threadVars, storeVars, raceVars, validVars>>

NextSearch ==
  \/ Search
  \/ SearchOk
  \/ SearchFailed
  \/ SearchRequestException

SpecSearch == InitSearch /\ [][NextSearch]_vars

(***************************************************************************)
(* DataValidator.validate_positions, validate_trades, validate_securities  *)
(* and validate_prices.  A batch is given by what _validate_record returns *)
(* for each of its records: a list of results, of which the summary reads  *)
(* the severity only.                                                      *)
(***************************************************************************)
MaxRecords == 2
MaxResults == 2

Severities == { "error", "warning", "info" }

SeqsUpTo(S, n) == UNION { SeqsOfLen(S, k) : k \in 0..n }

\* ValidationSummary.__init__
NewSummary ==
  [results |-> <<>>, error_count |-> 0, warning_count |-> 0, info_count |-> 0,
   records_validated |-> 0, records_failed |-> 0]

\* an add_result that counts errors and warnings only
AddResultNoInfo(sm, result) ==
  IF result = "error"
  THEN [sm EXCEPT !.results = Append(@, result), !.error_count = @ + 1]
  ELSE IF result = "warning"
  THEN [sm EXCEPT !.results = Append(@, result), !.warning_count = @ + 1]
  ELSE [sm EXCEPT !.results = Append(@, result)]

\* ValidationSummary.add_result
AddResult(sm, result) ==
  IF result = "error"
  THEN [sm EXCEPT !.results = Append(@, result), !.error_count = @ + 1]
  ELSE IF result = "warning"
  THEN [sm EXCEPT !.results = Append(@, result), !.warning_count = @ + 1]
  ELSE [sm EXCEPT !.results = Append(@, result), !.info_count = @ + 1]

\* ValidationSummary.is_valid
IsValid(sm) == sm.error_count = 0

\* for result in results: summary.add_result(result)
RECURSIVE AddResults(_, _)
AddResults(sm, results) ==
  IF results = <<>> THEN sm
  ELSE AddResults(AddResult(sm, Head(results)), Tail(results))

InitValidate ==
  /\ rate_limit = 1
  /\ max_jobs = 1
  /\ request_count = 0
  /\ last_request_time = 0
  /\ now = WINDOW
  /\ jobs = <<>>
  /\ pc = "off"
  /\ i = 0
  /\ attempt = 0
  /\ all_results = <<>>
  /\ sent = <<>>
  /\ slept = <<>>
  /\ chunks = <<>>
  /\ faults = 0
  /\ ThreadsIdle
  /\ StoreIdle
  /\ RaceIdle
  /\ SearchIdle
  /\ vpc = "idle"
  /\ table = None
  /\ outcomes \in SeqsUpTo(SeqsUpTo(Severities, MaxResults), MaxRecords)
  /\ row = 0
  /\ summary = None
  /\ failed_records = {}

\* summary = ValidationSummary(); summary.records_validated = len(records)
Begin(t) ==
  /\ vpc = "idle"
  /\ vpc' = "loop"
  /\ table' = Some(t)
  /\ summary' = Some([NewSummary EXCEPT !.records_validated = Len(outcomes)])
  /\ failed_records' = {}
  /\ row' = 0
  /\ UNCHANGED outcomes
  /\ UNCHANGED <<clientVars, threadVars, storeVars, raceVars, searchVars>>

ValidatePositions == Begin("positions")

ValidateTrades == Begin("trades")

ValidateSecurities == Begin("securities")

ValidatePrices == Begin("security_prices")

\* one pass of "for i, record in enumerate(records)"
ValidateRecord ==
  /\ vpc = "loop"
  /\ row < Len(outcomes)
  /\ LET results == outcomes[row + 1]
     IN  /\ summary' = Some(AddResults(summary[1], results))
         /\ failed_records' =
              IF \E k \in 1..Len(results) : results[k] = "error"
              THEN failed_records \cup {row}
              ELSE failed_records
  /\ row' = row + 1
  /\ UNCHANGED <<vpc, table, outcomes>>
  /\ UNCHANGED <<clientVars, threadVars, storeVars, raceVars, searchVars>>

\* summary.records_failed = len(failed_records); return summary
ReturnSummary ==
  /\ vpc = "loop"
  /\ row = Len(outcomes)
  /\ summary' = Some([summary[1] EXCEPT !.records_failed = Cardinality(failed_records)])
  /\ vpc' = "done"
  /\ UNCHANGED <<table, outcomes, row, failed_records>>
  /\ UNCHANGED <<clientVars, threadVars, storeVars, raceVars, searchVars>>

NextValidate ==
  \/ ValidatePositions
  \/ ValidateTrades
  \/ ValidateSecurities
  \/ ValidatePrices
  \/ ValidateRecord
  \/ ReturnSummary

SpecValidate == InitValidate /\ [][NextValidate]_vars

(***************************************************************************)
(* Reading the histories.                                                  *)
(***************************************************************************)
CeilDiv(a, b) == (a + b - 1) \div b

\* the requests dispatched for the chunk at offset c, in order
SentFor(c) == SelectSeq(sent, LAMBDA r : r.chunk = c)

\* the sleeps taken while the chunk at offset c was being requested
SleptFor(c) == SelectSeq(slept, LAMBDA r : r.chunk = c /\ r.kind # "limit")

Transient(r) == r.resp \in {"500", "exception"}

Last(s) == s[Len(s)]

RECURSIVE OutLenBefore(_)
OutLenBefore(k) == IF k <= 1 THEN 0 ELSE OutLenBefore(k - 1) + Len(chunks[k - 1].out)

\* the part of all_results that the k-th finished chunk contributed
Segment(k) == SubSeq(all_results, OutLenBefore(k) + 1, OutLenBefore(k) + Len(chunks[k].out))

\* what a chunk must contribute, read off the last response it received
Outcome(c) ==
  LET r == Last(SentFor(c.chunk)) IN
    CASE r.resp = "200" -> ProcessResults(r.body, c.batch)
      [] r.resp = "400" -> FailBatch(c.batch, "Bad request")
      [] r.resp = "429" -> FailBatch(c.batch, "Max retries exceeded")
      [] r.resp = "500" -> FailBatch(c.batch, "API error")
      [] OTHER -> FailBatch(c.batch, "Request failed")

(***************************************************************************)
(* C1: map_jobs returns exactly len(jobs) results and result k is the      *)
(* outcome of job k (its query is job k), whatever the oracle answers.     *)
(* The code breaks it: a 200 response with fewer or more entries than the  *)
(* chunk has jobs yields as many results as entries.                       *)
(***************************************************************************)
C1_OneResultPerJob ==
  pc = "done" =>
    /\ Len(all_results) = Len(jobs)
    /\ \A k \in 1..Len(all_results) : all_results[k].query = Some(jobs[k])

(***************************************************************************)
(* C2: when every request succeeds on its first attempt, the k-th request  *)
(* carries jobs (k-1)*m+1 .. min(k*m, n) in input order, none carries more *)
(* than m jobs, and a finished call has dispatched exactly ceil(n/m).      *)
(***************************************************************************)
AllFirstTry == \A k \in 1..Len(sent) : sent[k].resp = "200"

C2_Batching ==
  AllFirstTry =>
    /\ \A k \in 1..Len(sent) :
         /\ sent[k].attempt = 0
         /\ sent[k].chunk = (k - 1) * max_jobs
         /\ Len(sent[k].batch) <= max_jobs
         /\ Len(sent[k].batch) = Min(k * max_jobs, Len(jobs)) - (k - 1) * max_jobs
         /\ \A j \in 1..Len(sent[k].batch) :
              sent[k].batch[j] = jobs[(k - 1) * max_jobs + j]
    /\ pc = "done" => Len(sent) = CeilDiv(Len(jobs), max_jobs)

C2_Witness ==
  /\ pc = "done"
  /\ AllFirstTry
  /\ Len(jobs) = 3
  /\ max_jobs = 2
  /\ Len(sent) = 2
  /\ Len(sent[1].batch) = 2
  /\ Len(sent[2].batch) = 1

(***************************************************************************)
(* C3: at most rate_limit requests are dispatched between the start of the *)
(* limiter's window and 60 seconds later, counting every dispatch.  The    *)
(* code breaks it: the limiter is consulted once per chunk, not once per   *)
(* request, so retries go out without a check (and a request that ends in  *)
(* a network exception is not even counted).                               *)
(***************************************************************************)
DispatchedInWindow ==
  Cardinality({ k \in 1..Len(sent) :
                  /\ sent[k].at >= last_request_time
                  /\ sent[k].at < last_request_time + WINDOW })

C3_CeilingPerWindow == DispatchedInWindow <= rate_limit

(***************************************************************************)
(* C5 as claimed: throttling responses do not consume the retry budget,    *)
(* so no chunk is given up on throttling alone, and a chunk given up on    *)
(* transient failures has had its 3 transient attempts.                    *)
(***************************************************************************)
NumThrottled(c) == Len(SelectSeq(SentFor(c), LAMBDA r : r.resp = "429"))
NumTransient(c) == Len(SelectSeq(SentFor(c), LAMBDA r : Transient(r)))

C6_BadRequestIsFinal ==
  \A k \in 1..Len(sent) :
    sent[k].resp = "400" =>
      /\ \A l \in (k + 1)..Len(sent) : sent[l].chunk # sent[k].chunk
      /\ \A l \in 1..Len(slept) :
           ~(slept[l].chunk = sent[k].chunk /\ slept[l].kind # "limit"
               /\ slept[l].attempt >= sent[k].attempt)
      /\ \E c \in 1..Len(chunks) :
           /\ chunks[c].chunk = sent[k].chunk
           /\ Len(Segment(c)) = Len(sent[k].batch)
           /\ \A j \in 1..Len(sent[k].batch) :
                Segment(c)[j] = [success |-> FALSE, results |-> <<>>,
                                 error |-> Some("Bad request"),
                                 query |-> Some(sent[k].batch[j])]
           /\ \A d \in (c + 1)..Len(chunks) : Segment(d) = Outcome(chunks[d])
      /\ pc = "done" => Len(chunks) = CeilDiv(Len(jobs), max_jobs)
      /\ pc # "done" => pc \in {"wait", "post"} /\ i = Len(chunks) * max_jobs

C6_Witness ==
  /\ pc = "done"
  /\ Len(chunks) = 2
  /\ chunks[1].how = "bad_request"
  /\ chunks[2].how = "ok"
  /\ Len(SentFor(0)) = 1
  /\ \E j \in 1..Len(all_results) : all_results[j].success

(***************************************************************************)
(* C7: on transient failures (a server-error status, a network error, a    *)
(* timeout) a chunk is requested at most 3 times; failed attempt a = 0, 1  *)
(* is followed by a sleep of 2^a seconds (1, then 2) and the next request  *)
(* goes out right after it; the last attempt is followed by no sleep and   *)
(* fails every job of the chunk; a 200 ends the chunk with its results.    *)
(***************************************************************************)
C7_BoundedBackoff ==
  /\ \A k \in 1..Len(sent) :
       /\ sent[k].attempt \in 0..2
       /\ Len(SentFor(sent[k].chunk)) <= 3
       /\ Transient(sent[k]) /\ sent[k].attempt < 2 =>
            /\ \E l \in 1..Len(slept) :
                 /\ slept[l].chunk = sent[k].chunk
                 /\ slept[l].attempt = sent[k].attempt
                 /\ slept[l].kind = "backoff"
                 /\ slept[l].secs = (IF sent[k].attempt = 0 THEN 1 ELSE 2)
            /\ k < Len(sent) =>
                 /\ sent[k + 1].chunk = sent[k].chunk
                 /\ sent[k + 1].attempt = sent[k].attempt + 1
                 /\ sent[k + 1].at = sent[k].at + (IF sent[k].attempt = 0 THEN 1 ELSE 2)
            /\ k = Len(sent) => pc = "post" /\ i = sent[k].chunk
       /\ Transient(sent[k]) /\ sent[k].attempt = 2 =>
            /\ \A l \in 1..Len(slept) :
                 ~(slept[l].chunk = sent[k].chunk /\ slept[l].attempt = 2
                     /\ slept[l].kind = "backoff")
            /\ \E c \in 1..Len(chunks) :
                 /\ chunks[c].chunk = sent[k].chunk
                 /\ Len(Segment(c)) = Len(sent[k].batch)
                 /\ \A j \in 1..Len(sent[k].batch) :
                      /\ ~Segment(c)[j].success
                      /\ Segment(c)[j].results = <<>>
                      /\ Segment(c)[j].error # None
                      /\ Segment(c)[j].query = Some(sent[k].batch[j])
            /\ \A l \in (k + 1)..Len(sent) : sent[l].chunk # sent[k].chunk
       /\ sent[k].resp = "200" =>
            \E c \in 1..Len(chunks) :
              /\ chunks[c].chunk = sent[k].chunk
              /\ Segment(c) = ProcessResults(sent[k].body, sent[k].batch)
  /\ \A k \in 1..Len(chunks) :
       NumTransient(chunks[k].chunk) = 3 =>
         /\ [l \in 1..Len(SleptFor(chunks[k].chunk)) |-> SleptFor(chunks[k].chunk)[l].secs]
              = <<1, 2>>
         /\ chunks[k].how \in {"api_error", "request_failed"}

C7_Witness ==
  \E k \in 1..Len(chunks) :
    /\ NumTransient(chunks[k].chunk) = 3
    /\ \E r \in 1..Len(sent) : sent[r].resp = "exception" /\ sent[r].chunk = chunks[k].chunk
    /\ \E r \in 1..Len(sent) : sent[r].resp = "500" /\ sent[r].chunk = chunks[k].chunk
    /\ Len(chunks[k].batch) = 2

(***************************************************************************)
(* C8: failure isolation is per chunk.  However a chunk fails, the call    *)
(* goes on to the next chunk (no exception leaves map_jobs), and what any  *)
(* other chunk contributes depends on that chunk's own last response only. *)
(***************************************************************************)
Failed(c) == c.how # "ok"

C8_PerChunkIsolation ==
  /\ pc \in {"idle", "wait", "post", "done"}
  /\ pc # "idle" =>
       /\ pc = "done" => Len(chunks) = CeilDiv(Len(jobs), max_jobs)
       /\ pc # "done" => i = Len(chunks) * max_jobs /\ i < Len(jobs)
       /\ Len(all_results) = OutLenBefore(Len(chunks) + 1)
       /\ \A k \in 1..Len(chunks) :
            /\ chunks[k].chunk = (k - 1) * max_jobs
            /\ chunks[k].batch = Batch(jobs, (k - 1) * max_jobs, max_jobs)
            /\ Segment(k) = Outcome(chunks[k])
            /\ Failed(chunks[k]) => Len(Segment(k)) = Len(chunks[k].batch)

C8_Witness ==
  /\ pc = "done"
  /\ Len(chunks) = 2
  /\ chunks[1].how = "max_retries"
  /\ chunks[2].how = "ok"
  /\ \E j \in 1..Len(all_results) : all_results[j].success

(***************************************************************************)
(* C4: with two callers sharing the client the limiter's counter and       *)
(* window start are read and updated atomically: no increment is lost      *)
(* (once every caller is outside _make_request the counter equals the      *)
(* number of requests dispatched since its last reset) and the requests    *)
(* dispatched within one window never exceed the ceiling.  The code has    *)
(* no lock: both callers pass the check together, and one += overwrites    *)
(* the other.                                                              *)
(***************************************************************************)
Quiescent == \A t \in Callers : tpc[t] \in {"start", "returned"}

PostedInWindow ==
  Cardinality({ k \in 1..Len(posted) :
                  /\ posted[k].at >= last_request_time
                  /\ posted[k].at < last_request_time + WINDOW })

C4_AtomicLimiter ==
  /\ Quiescent => request_count = issued
  /\ PostedInWindow <= rate_limit

(***************************************************************************)
(* C9.  A call of resolve_identifier made on a usable connection (its      *)
(* transaction is not aborted) while the store holds an active             *)
(* security linked to an identifier of the queried type and value, whose   *)
(* exchange code is the queried one or NULL (any, when no exchange is      *)
(* queried), returns such a security with is_new = FALSE and enriched =    *)
(* FALSE, does not call the mapping client and leaves securities and       *)
(* security_identifiers as they were.                                      *)
(***************************************************************************)
HeldLocally(secs, rows, q) ==
  { sec \in Range(secs) :
      /\ sec.is_active
      /\ \E r \in Range(rows) :
           /\ r.security_id = sec.id
           /\ r.identifier_type = Normalize(q.id_type)
           /\ r.identifier_value = q.id_value
           /\ \/ q.exchange = None
              \/ r.exchange_code = q.exchange
              \/ r.exchange_code = None }

C10_ResolveIdempotent ==
  \A k \in 1..(Len(calls) - 1) :
    (/\ calls[k].args = calls[k + 1].args
     /\ calls[k].create_if_missing /\ calls[k + 1].create_if_missing
     /\ calls[k].ret # None /\ calls[k + 1].ret # None)
    => /\ calls[k + 1].ret[1].security_id = calls[k].ret[1].security_id
       /\ ~calls[k + 1].ret[1].is_new

(***************************************************************************)
(* C11.  A call of resolve_identifier that misses locally and whose first  *)
(* oracle candidate carries a key held by an active security S inserts no  *)
(* security row and returns the id of such an S with is_new = FALSE and    *)
(* enriched = TRUE.  C11_AlwaysAttaches adds that afterwards a row links   *)
(* the queried triple to S in every case.  C11_ConvergesOnKey              *)
(* states what the code does: the row is appended unless the INSERT raised *)
(* or the triple, with an exchange code, is already in the table; then the *)
(* table is left as it was.                                                *)
(***************************************************************************)
HoldersOf(secs, key) == { sec \in Range(secs) : sec.is_active /\ sec.figi = Some(key) }

\* the step is a call that missed locally and got a candidate whose key is held
ConvergingCall ==
  /\ Len(calls') = Len(calls) + 1
  /\ HeldLocally(securities, security_identifiers, Last(calls').args) = {}
  /\ Last(calls').oracle # None
  /\ Last(calls').oracle[1].success
  /\ Last(calls').oracle[1].results # <<>>
  /\ HoldersOf(securities, Last(calls').oracle[1].results[1].figi) # {}

ReturnsHolder ==
  /\ securities' = securities
  /\ ~Last(calls').raised
  /\ Last(calls').ret # None
  /\ Last(calls').ret[1].security_id \in
       { sec.id : sec \in HoldersOf(securities, Last(calls').oracle[1].results[1].figi) }
  /\ ~Last(calls').ret[1].is_new
  /\ Last(calls').ret[1].enriched

C11_AlwaysAttaches ==
  [][ ConvergingCall =>
        /\ ReturnsHolder
        /\ \E r \in Range(security_identifiers') :
             /\ r.security_id = Last(calls').ret[1].security_id
             /\ r.identifier_type = Normalize(Last(calls').args.id_type)
             /\ r.identifier_value = Last(calls').args.id_value
             /\ r.exchange_code = Last(calls').args.exchange ]_vars

C11_ConvergesOnKey ==
  [][ ConvergingCall =>
        /\ ReturnsHolder
        /\ LET c == Last(calls')
               taken == /\ c.args.exchange # None
                        /\ \E r \in Range(security_identifiers) :
                             /\ r.identifier_type = Normalize(c.args.id_type)
                             /\ r.identifier_value = c.args.id_value
                             /\ r.exchange_code = c.args.exchange
           IN  IF c.fails = {} /\ ~taken
               THEN security_identifiers' =
                      Append(security_identifiers,
                             [security_id |-> c.ret[1].security_id,
                              identifier_type |-> Normalize(c.args.id_type),
                              identifier_value |-> c.args.id_value,
                              exchange_code |-> c.args.exchange,
                              is_primary |-> FALSE])
               ELSE security_identifiers' = security_identifiers ]_vars

\* a ticker created with its security, then a cusip that the oracle maps to the same key
C11_Witness ==
  /\ Len(calls) = 2
  /\ calls[1].ret # None /\ calls[1].ret[1].is_new
  /\ calls[2].args.id_type = "cusip"
  /\ calls[2].oracle # None /\ calls[2].oracle[1].success
  /\ calls[2].ret # None
  /\ calls[2].ret[1].security_id = calls[1].ret[1].security_id
  /\ ~calls[2].ret[1].is_new /\ calls[2].ret[1].enriched
  /\ Len(securities) = 1
  /\ \E r \in Range(security_identifiers) :
       /\ r.security_id = calls[1].ret[1].security_id
       /\ r.identifier_type = "cusip" /\ r.identifier_value = "C"

(***************************************************************************)
(* C12.  No two active securities hold the same canonical key.             *)
(***************************************************************************)
C12_OneActiveSecurityPerKey ==
  \A a, b \in 1..Len(securities) :
    (/\ a # b
     /\ securities[a].is_active /\ securities[b].is_active
     /\ securities[a].figi # None)
    => securities[a].figi # securities[b].figi

(***************************************************************************)
(* C13.  When two resolve_identifier calls for the same identifier on      *)
(* separate connections have both missed the local lookup and got the same *)
(* figi from the oracle, then once both are over there is exactly one row  *)
(* of securities with that figi and both calls have returned its id.       *)
(***************************************************************************)
RowsWithFigi(figi) == { k \in 1..Len(securities) : securities[k].figi = Some(figi) }

C13_RaceConverges ==
  (\A t \in Callers : rpc[t] = "done" /\ rloc[t].missed)
  => \E k \in 1..Len(securities) :
       /\ RowsWithFigi(securities[k].figi[1]) = {k}
       /\ \A t \in Callers :
            /\ securities[k].figi = Some(rloc[t].figi_data.figi)
            /\ ~rloc[t].raised
            /\ rloc[t].ret = Some(securities[k].id)

(***************************************************************************)
(* C14.  A call of resolve_identifier with create_if_missing = TRUE that   *)
(* misses locally and gets no candidate from the oracle inserts exactly    *)
(* one security (active, unverified, without key, of asset class "other",  *)
(* named after the queried value) and exactly one identifier (the queried  *)
(* triple, primary, linked to it), and returns it with is_new = TRUE and   *)
(* enriched = FALSE.                                                       *)
(***************************************************************************)
PlaceholderCall ==
  /\ Len(calls') = Len(calls) + 1
  /\ ~tx_failed
  /\ Last(calls').create_if_missing
  /\ HeldLocally(securities, security_identifiers, Last(calls').args) = {}
  /\ Last(calls').oracle # None
  /\ ~Last(calls').oracle[1].success \/ Last(calls').oracle[1].results = <<>>

C14_PlaceholderCreated ==
  [][ PlaceholderCall =>
        LET c == Last(calls') IN
        /\ Len(securities') = Len(securities) + 1
        /\ SubSeq(securities', 1, Len(securities)) = securities
        /\ Last(securities').is_active
        /\ ~Last(securities').is_verified
        /\ Last(securities').figi = None
        /\ Last(securities').asset_class = "other"
        /\ \E k \in DOMAIN Last(securities').name : Last(securities').name[k] = c.args.id_value
        /\ security_identifiers' =
             Append(security_identifiers,
                    [security_id |-> Last(securities').id,
                     identifier_type |-> Normalize(c.args.id_type),
                     identifier_value |-> c.args.id_value,
                     exchange_code |-> c.args.exchange,
                     is_primary |-> TRUE])
        /\ ~c.raised
        /\ c.ret # None
        /\ c.ret[1].security_id = Last(securities').id
        /\ c.ret[1].is_new
        /\ ~c.ret[1].enriched ]_vars

(***************************************************************************)
(* C15.  A call of resolve_identifier with create_if_missing = FALSE       *)
(* inserts no security; when the oracle gives no candidate, or a candidate *)
(* whose key no active security holds, it returns None and leaves both     *)
(* tables as they were.                                                    *)
(***************************************************************************)
C15_NoCreateWithoutFlag ==
  [][ (Len(calls') = Len(calls) + 1 /\ ~Last(calls').create_if_missing)
      => LET c == Last(calls') IN
         /\ securities' = securities
         /\ (c.oracle # None
             /\ (~c.oracle[1].success
                 \/ c.oracle[1].results = <<>>
                 \/ HoldersOf(securities, c.oracle[1].results[1].figi) = {}))
            => /\ c.ret = None
               /\ ~c.raised
               /\ security_identifiers' = security_identifiers ]_vars

\* both None answers have been given: no candidate, and a candidate with a new key
C15_Witness ==
  /\ Len(calls) = 2
  /\ ~calls[1].create_if_missing /\ ~calls[2].create_if_missing
  /\ calls[1].oracle = Some(NoMatch) /\ calls[1].ret = None
  /\ calls[2].oracle # None /\ calls[2].oracle[1].success /\ calls[2].ret = None
  /\ HoldersOf(securities, calls[2].oracle[1].results[1].figi) = {}
  /\ oracle_calls = 2
  /\ ~tx_failed

(***************************************************************************)
(* C16.  resolve_identifiers returns one entry per request, in the order   *)
(* of the requests: entry k is what resolve_identifier returned for        *)
(* request k, called with the batch's create_if_missing, and None when     *)
(* that call raised.                                                       *)
(***************************************************************************)
C16_OneEntryPerRequest ==
  \A b \in 1..Len(batches) :
    /\ Len(batches[b].results) = Len(batches[b].identifiers)
    /\ \A k \in 1..Len(batches[b].identifiers) :
         LET c == calls[batches[b].from + k] IN
         /\ c.args = batches[b].identifiers[k]
         /\ c.create_if_missing = batches[b].create_if_missing
         /\ batches[b].results[k] = c.ret
         /\ c.raised => batches[b].results[k] = None

\* a list of two requests: the first is resolved, the second raises and gives None
C16_Witness ==
  /\ Len(batches) = 1
  /\ Len(batches[1].identifiers) = 2
  /\ batches[1].results[1] # None
  /\ batches[1].results[2] = None
  /\ calls[batches[1].from + 2].raised
  /\ running = None

(***************************************************************************)
(* C17.  Inside resolve_identifiers an item that raised does not change    *)
(* the outcome of the items after it: a later item whose identifier an     *)
(* active security holds is answered with such a security, as it is when   *)
(* the failing item is not in the list.                                    *)
(***************************************************************************)
RaisedEarlier ==
  /\ running # None
  /\ \E k \in (running[1].from + 1)..Len(calls) : calls[k].raised

C17_LaterItemsUnaffected ==
  [][ (/\ RaisedEarlier
       /\ Len(calls') = Len(calls) + 1
       /\ HeldLocally(securities, security_identifiers, Last(calls').args) # {})
      => /\ Last(calls').ret # None
         /\ Last(calls').ret[1].security_id \in
              { sec.id : sec \in HeldLocally(securities, security_identifiers,
                                             Last(calls').args) } ]_vars

(***************************************************************************)
(* C18.  enrich_security on a security that has a canonical key and was    *)
(* enriched less than 7 days ago makes no oracle call, changes no row and  *)
(* returns False.                                                          *)
(***************************************************************************)
InCooldown(security) ==
  /\ security.figi # None
  /\ security.last_enriched_at # None
  /\ today - security.last_enriched_at[1] < COOLDOWN_DAYS

C18_CooldownSkips ==
  [][ (/\ Len(enrichments') = Len(enrichments) + 1
       /\ Last(enrichments').security_id \in 1..Len(securities)
       /\ InCooldown(securities[Last(enrichments').security_id]))
      => /\ oracle_calls' = oracle_calls
         /\ securities' = securities
         /\ security_identifiers' = security_identifiers
         /\ next_id' = next_id
         /\ Last(enrichments').oracle = None
         /\ Last(enrichments').ret = FALSE
         /\ ~Last(enrichments').raised ]_vars

\* an enrichment skipped on the last day of the cool-down
C18_Witness ==
  /\ enrichments # <<>>
  /\ Last(enrichments).security_id \in 1..Len(securities)
  /\ InCooldown(securities[Last(enrichments).security_id])
  /\ today - securities[Last(enrichments).security_id].last_enriched_at[1] = COOLDOWN_DAYS - 1
  /\ Last(enrichments).ret = FALSE
  /\ oracle_calls = 0

(***************************************************************************)
(* C19.  A canonical key that is set never changes: in every step each     *)
(* security that has a figi keeps that figi.                               *)
(***************************************************************************)
C19_KeyNeverChanges ==
  [][ \A k \in 1..Len(securities) :
        securities[k].figi # None
        => /\ k <= Len(securities')
           /\ securities'[k].figi = securities[k].figi ]_vars

\* an enrichment that got another key from the oracle for a security that has one
C19_Witness ==
  /\ enrichments # <<>>
  /\ LET enr == Last(enrichments) IN
     /\ enr.security_id \in 1..Len(securities)
     /\ enr.oracle # None
     /\ enr.oracle[1].success
     /\ enr.ret = TRUE
     /\ securities[enr.security_id].figi # None
     /\ securities[enr.security_id].figi # Some(enr.oracle[1].results[1].figi)

(***************************************************************************)
(* C20.  No two rows of security_identifiers have the same                 *)
(* (identifier_type, identifier_value, exchange_code), a NULL              *)
(* exchange_code counting as equal to a NULL exchange_code.                *)
(***************************************************************************)
C20_TripleUnique ==
  \A a, b \in 1..Len(security_identifiers) :
    (/\ security_identifiers[a].identifier_type = security_identifiers[b].identifier_type
     /\ security_identifiers[a].identifier_value = security_identifiers[b].identifier_value
     /\ security_identifiers[a].exchange_code = security_identifiers[b].exchange_code)
    => a = b

C22_SearchBestEffort ==
  \A k \in 1..Len(searches) :
    /\ searches[k].waits <= 1
    /\ searches[k].requests = 1
    /\ searches[k].counted = searches[k].requests
    /\ ~searches[k].raised
    /\ Len(searches[k].ret) <= searches[k].limit
    /\ searches[k].resp = "200" =>
         searches[k].ret = SearchResults(searches[k].body, searches[k].limit)
    /\ searches[k].resp # "200" => searches[k].ret = <<>>

(***************************************************************************)
(* C23.  When resolve_identifier creates a security from a candidate, the  *)
(* security is committed and returned whichever of the identifier INSERTs  *)
(* fail: every identifier whose INSERT did not fail is in the table after  *)
(* the call, those after a failed one included, as a row of the new        *)
(* security when the triple was not in the table before, and no row is     *)
(* lost.                                                                   *)
(***************************************************************************)
CreateCall(c) ==
  /\ c.ret # None
  /\ c.oracle # None
  /\ c.oracle[1].success
  /\ c.ret[1].is_new

TodoOf(c) ==
  IdentifiersToAdd(c.oracle[1].results[1], Normalize(c.args.id_type), c.args.id_value,
                   c.args.exchange)

Owns(rows, security_id, t) ==
  \E r \in Range(rows) :
    /\ r.security_id = security_id
    /\ r.identifier_type = t.t
    /\ r.identifier_value = t.v
    /\ r.exchange_code = t.x

C23_SecuritySurvivesFailedInserts ==
  [][ (Len(calls') = Len(calls) + 1 /\ CreateCall(Last(calls')))
      => LET c == Last(calls')
             todo == TodoOf(c)
             sid == c.ret[1].security_id
         IN  /\ ~c.raised
             /\ Len(securities') = Len(securities) + 1
             /\ SubSeq(securities', 1, Len(securities)) = securities
             /\ Last(securities').id = sid
             /\ Len(security_identifiers') >= Len(security_identifiers)
             /\ SubSeq(security_identifiers', 1, Len(security_identifiers))
                  = security_identifiers
             /\ \A k \in 1..Len(todo) :
                  (k \notin c.fails /\ todo[k].v # "")
                  => IF TripleExists(security_identifiers, todo[k].t, todo[k].v, todo[k].x)
                     THEN TripleExists(security_identifiers', todo[k].t, todo[k].v, todo[k].x)
                     ELSE Owns(security_identifiers', sid, todo[k]) ]_vars

\* a security created although the second of its identifier INSERTs failed: the
\* first and the third identifier are rows of it
C23_Witness ==
  /\ calls # <<>>
  /\ CreateCall(Last(calls))
  /\ Last(calls).fails = {2}
  /\ Len(TodoOf(Last(calls))) >= 3
  /\ Owns(security_identifiers, Last(calls).ret[1].security_id, TodoOf(Last(calls))[1])
  /\ Owns(security_identifiers, Last(calls).ret[1].security_id, TodoOf(Last(calls))[3])
  /\ ~Owns(security_identifiers, Last(calls).ret[1].security_id, TodoOf(Last(calls))[2])
  /\ \E sec \in Range(securities) : sec.id = Last(calls).ret[1].security_id

(***************************************************************************)
(* C24.  The asset class of a security created from a candidate is the     *)
(* entry of SECURITY_TYPE_MAP for the candidate's security type when the   *)
(* table has one, else the entry of MARKET_SECTOR_MAP for its market       *)
(* sector when the table has one, else "equity".                           *)
(***************************************************************************)
TwoTierFallback(figi_data) ==
  IF figi_data.security_type # None
     /\ figi_data.security_type[1] \in DOMAIN SECURITY_TYPE_MAP
  THEN SECURITY_TYPE_MAP[figi_data.security_type[1]]
  ELSE IF figi_data.market_sector # None
          /\ figi_data.market_sector[1] \in DOMAIN MARKET_SECTOR_MAP
  THEN MARKET_SECTOR_MAP[figi_data.market_sector[1]]
  ELSE "equity"

C24_AssetClassFallback ==
  \A k \in 1..Len(calls) :
    CreateCall(calls[k])
    => /\ calls[k].ret[1].asset_class = TwoTierFallback(calls[k].oracle[1].results[1])
       /\ \A sec \in Range(securities) :
            sec.id = calls[k].ret[1].security_id
            => sec.asset_class = TwoTierFallback(calls[k].oracle[1].results[1])

(***************************************************************************)
(* C25.  A security that resolve_identifier creates from a candidate, all  *)
(* identifier INSERTs succeeding, is verified, holds the candidate's figi, *)
(* is returned with is_new and enriched true, and owns exactly the         *)
(* identifiers of identifiers_to_add, each once: the figi as primary, the  *)
(* ticker and the composite figi when the candidate has them, and the      *)
(* queried identifier.                                                     *)
(***************************************************************************)
RowsOf(rows, security_id) ==
  { k \in 1..Len(rows) : rows[k].security_id = security_id }

TriplesOf(rows, security_id) ==
  { [t |-> rows[k].identifier_type, v |-> rows[k].identifier_value,
     x |-> rows[k].exchange_code] : k \in RowsOf(rows, security_id) }

TriplesToAdd(todo) ==
  { [t |-> todo[k].t, v |-> todo[k].v, x |-> todo[k].x] :
      k \in { n \in 1..Len(todo) : todo[n].v # "" } }

C25_CreatedSecurityOwnsItsIdentifiers ==
  [][ (/\ Len(calls') = Len(calls) + 1
       /\ CreateCall(Last(calls'))
       /\ Last(calls').fails = {})
      => LET c == Last(calls')
             figi_data == c.oracle[1].results[1]
             sid == c.ret[1].security_id
         IN  /\ c.ret[1].is_new
             /\ c.ret[1].enriched
             /\ c.ret[1].figi = Some(figi_data.figi)
             /\ \E sec \in Range(securities') :
                  /\ sec.id = sid
                  /\ sec.is_verified
                  /\ sec.figi = Some(figi_data.figi)
             /\ TriplesOf(security_identifiers', sid) = TriplesToAdd(TodoOf(c))
             /\ Cardinality(RowsOf(security_identifiers', sid))
                  = Cardinality(TriplesToAdd(TodoOf(c)))
             /\ \A k \in RowsOf(security_identifiers', sid) :
                  security_identifiers'[k].is_primary
                    <=> security_identifiers'[k].identifier_type = "figi" ]_vars

(***************************************************************************)
(* C26.  In every state a security whose is_verified is true has a figi.   *)
(***************************************************************************)
C26_VerifiedHasKey ==
  \A sec \in Range(securities) : sec.is_verified => Truthy(sec.figi)

(***************************************************************************)
(* C27.  enrich_security returns True, or changes the row of the security, *)
(* only in a call that filled the figi of the security or inserted at      *)
(* least one identifier row.                                               *)
(***************************************************************************)
C27_EnrichedOnlyWhenChanged ==
  [][ (Len(enrichments') = Len(enrichments) + 1
       /\ Last(enrichments').security_id \in 1..Len(securities))
      => LET sid == Last(enrichments').security_id
             filled == securities[sid].figi = None /\ securities'[sid].figi # None
             inserted == Len(security_identifiers') > Len(security_identifiers)
         IN  /\ Last(enrichments').ret = TRUE => (filled \/ inserted)
             /\ securities'[sid] # securities[sid] => (filled \/ inserted) ]_vars

(***************************************************************************)
(* C28.  enrich_security queries the oracle once for each identifier of    *)
(* the security whose type IDENTIFIER_TO_OPENFIGI maps, in order, up to    *)
(* the first query that is answered with a candidate, and with no other    *)
(* row; a call in which no query is answered with a candidate, or whose    *)
(* security id does not exist, returns False and changes no row.           *)
(***************************************************************************)
InCooldownOf(enr) ==
  /\ enr.security_id \in 1..Len(securities)
  /\ RecentlyEnriched(securities[enr.security_id])

Answered(enr) == enr.oracle # None /\ enr.oracle[1].success /\ enr.oracle[1].results # <<>>

C28_StopsAtFirstSuccess ==
  [][ Len(enrichments') = Len(enrichments) + 1
      => LET enr == Last(enrichments')
             rows == security_identifiers
             mine == { k \in 1..Len(rows) :
                         /\ rows[k].security_id = enr.security_id
                         /\ rows[k].identifier_type \in DOMAIN IDENTIFIER_TO_OPENFIGI }
         IN  /\ oracle_calls' - oracle_calls = Len(enr.queried)
             /\ \A n \in 1..Len(enr.queried) :
                  /\ enr.queried[n] \in mine
                  /\ \A r \in mine : r < enr.queried[n] <=> \E p \in 1..(n - 1) : enr.queried[p] = r
             /\ (~Answered(enr) /\ ~InCooldownOf(enr))
                  => { enr.queried[n] : n \in 1..Len(enr.queried) } = mine
             /\ ~Answered(enr)
                  => /\ enr.ret = FALSE
                     /\ ~enr.raised
                     /\ securities' = securities
                     /\ security_identifiers' = security_identifiers ]_vars

\* a call on a security with an identifier that has no oracle type and two that have
\* one: the first of the two was answered, the second was not queried
C28_Witness ==
  /\ enrichments # <<>>
  /\ Answered(Last(enrichments))
  /\ Len(Last(enrichments).queried) = 1
  /\ \E k \in 1..Len(security_identifiers) :
       /\ k < Last(enrichments).queried[1]
       /\ security_identifiers[k].security_id = Last(enrichments).security_id
       /\ security_identifiers[k].identifier_type \notin DOMAIN IDENTIFIER_TO_OPENFIGI
  /\ \E k \in Mappable(Last(enrichments).security_id) :
       /\ k > Last(enrichments).queried[1]
       /\ security_identifiers[k].identifier_type = "isin"
  /\ oracle_calls = 1

(***************************************************************************)
(* C29.  The request that follows a 429 for the same chunk is dispatched   *)
(* at least d seconds after it, d being the Retry-After of the 429 and 60  *)
(* when the 429 has none, and carries the same jobs.                       *)
(***************************************************************************)
C29_ThrottleDelayObeyed ==
  \A k \in 1..(Len(sent) - 1) :
    (sent[k].resp = "429" /\ sent[k + 1].chunk = sent[k].chunk)
    => /\ sent[k + 1].at - sent[k].at >=
            (IF sent[k].retry_after = None THEN 60 ELSE sent[k].retry_after[1])
       /\ sent[k + 1].batch = sent[k].batch
       /\ sent[k + 1].attempt = sent[k].attempt + 1

\* a chunk throttled twice, once with Retry-After: 1 and once without the header
C29_Witness ==
  \E k \in 1..(Len(sent) - 2) :
    /\ sent[k].resp = "429" /\ sent[k].retry_after = Some(1)
    /\ sent[k + 1].resp = "429" /\ sent[k + 1].retry_after = None
    /\ sent[k + 2].chunk = sent[k].chunk
    /\ sent[k + 1].at = sent[k].at + 1
    /\ sent[k + 2].at = sent[k + 1].at + 60
    /\ sent[k].batch # <<>>

(***************************************************************************)
(* C30.  Any requests of one client that are dispatched less than 60       *)
(* seconds apart are at most _rate_limit requests.                         *)
(***************************************************************************)
C30_RollingCeiling ==
  \A j, k \in 1..Len(sent) :
    (j <= k /\ sent[k].at - sent[j].at < WINDOW) => k - j + 1 <= rate_limit

(***************************************************************************)
(* C31.  For a 200 response map_jobs classifies the entries by position:   *)
(* an entry with an error gives a failed result with that error, an entry  *)
(* with a non-empty data list a successful result with one candidate per   *)
(* item, in order, each tagged with the job at the entry's position, and   *)
(* an entry without data, or with an empty list, a failed result with the  *)
(* reason "No match found".                                                *)
(***************************************************************************)
\* the 200 body that ended the chunk recorded by the n-th element of chunks
BodyOf(n) ==
  LET ks == { k \in 1..Len(sent) : sent[k].chunk = chunks[n].chunk /\ sent[k].resp = "200" }
  IN  sent[CHOOSE k \in ks : TRUE].body

ClassifiedAs(entry, res, job) ==
  /\ res.query = job
  /\ entry.error # None =>
       res.success = FALSE /\ res.error = entry.error /\ res.results = <<>>
  /\ (entry.error = None /\ entry.data # None /\ entry.data[1] # <<>>) =>
       /\ res.success = TRUE
       /\ res.error = None
       /\ Len(res.results) = Len(entry.data[1])
       /\ \A m \in 1..Len(entry.data[1]) :
            res.results[m].figi = entry.data[1][m] /\ res.results[m].query = job
  /\ (entry.error = None /\ (entry.data = None \/ entry.data[1] = <<>>)) =>
       res.success = FALSE /\ res.error = Some("No match found") /\ res.results = <<>>

C31_EntriesClassifiedByPosition ==
  \A n \in 1..Len(chunks) :
    chunks[n].how = "ok" =>
      LET api_results == BodyOf(n)
          batch == chunks[n].batch
      IN  /\ Len(chunks[n].out) = Len(api_results)
          /\ \A j \in 1..Len(api_results) :
               ClassifiedAs(api_results[j], chunks[n].out[j],
                            IF j <= Len(batch) THEN Some(batch[j]) ELSE None)

\* a finished call whose second chunk held entries of all three classes, one with two items
C31_Witness ==
  /\ pc = "done"
  /\ \E n \in 2..Len(chunks) :
       /\ chunks[n].how = "ok"
       /\ \E a, b \in 1..Len(chunks[n].out) :
            /\ a < b
            /\ chunks[n].out[a].success /\ Len(chunks[n].out[a].results) = 2
            /\ chunks[n].out[b].error = Some("oracle error")
            /\ BodyOf(n)[b].data # None
       /\ \E a \in 1..Len(chunks[n - 1].out) :
            chunks[n - 1].out[a].error = Some("No match found") /\ BodyOf(n - 1)[a].data = None

(***************************************************************************)
(* C32.  In every store state a security has at most one identifier that   *)
(* is marked primary per identifier type.                                  *)
(***************************************************************************)
PrimariesOf(security_id, id_type) ==
  { k \in 1..Len(security_identifiers) :
      /\ security_identifiers[k].security_id = security_id
      /\ security_identifiers[k].identifier_type = id_type
      /\ security_identifiers[k].is_primary }

C32_OnePrimaryPerType ==
  \A sec \in Range(securities) :
    \A r \in Range(security_identifiers) :
      Cardinality(PrimariesOf(sec.id, r.identifier_type)) <= 1

\* a created security owns a primary figi and a ticker, and a placeholder with a
\* primary identifier was enriched with further identifiers
C32_Witness ==
  /\ \E sec \in Range(securities) :
       /\ \E n \in 1..Len(calls) :
            /\ calls[n].ret # None
            /\ calls[n].ret[1].security_id = sec.id
            /\ calls[n].ret[1].is_new /\ calls[n].ret[1].enriched
       /\ PrimariesOf(sec.id, "figi") # {}
       /\ \E r \in Range(security_identifiers) :
            r.security_id = sec.id /\ r.identifier_type = "ticker" /\ ~r.is_primary
  /\ \E n \in 1..Len(enrichments) :
       /\ enrichments[n].ret
       /\ PrimariesOf(enrichments[n].security_id, "cusip") # {}
       /\ Cardinality({ r \in Range(security_identifiers) :
                          r.security_id = enrichments[n].security_id }) >= 2

(***************************************************************************)
(* C33.  As stated: every ResolvedSecurity that resolve_identifier returns *)
(* with is_new = TRUE has enriched = TRUE.                                 *)
(***************************************************************************)
C33_NewImpliesEnriched ==
  \A n \in 1..Len(calls) :
    (calls[n].ret # None /\ calls[n].ret[1].is_new) => calls[n].ret[1].enriched

(***************************************************************************)
(* C33, amended.  A ResolvedSecurity returned with is_new = TRUE has       *)
(* enriched = TRUE exactly when the security was created from a candidate  *)
(* of the oracle; a placeholder, created when the oracle has no match, is  *)
(* returned with is_new = TRUE, enriched = FALSE and no key.               *)
(***************************************************************************)
C33_NewIsEnrichedUnlessPlaceholder ==
  \A n \in 1..Len(calls) :
    (calls[n].ret # None /\ calls[n].ret[1].is_new) =>
      /\ calls[n].ret[1].enriched <=> calls[n].oracle[1].success
      /\ calls[n].ret[1].enriched <=> calls[n].ret[1].figi # None

\* one call created a security from a candidate, another created a placeholder
C33_Witness ==
  \E a, b \in 1..Len(calls) :
    /\ calls[a].ret # None /\ calls[a].ret[1].is_new /\ calls[a].oracle[1].success
    /\ calls[b].ret # None /\ calls[b].ret[1].is_new /\ ~calls[b].oracle[1].success

(***************************************************************************)
(* C34.  The local lookup returns only active securities.  With an         *)
(* exchange supplied it matches an identifier of the type and value whose  *)
(* stored exchange is the supplied one or NULL, and none stored under      *)
(* another exchange; with no exchange supplied it matches an identifier of *)
(* the type and value under any stored exchange.  It returns nothing only  *)
(* when no active security owns a matching identifier.                     *)
(***************************************************************************)
\* the identifiers that the lookup of call c is to match
MatchedBy(c) ==
  { r \in Range(security_identifiers) :
      /\ r.identifier_type = c.id_type
      /\ r.identifier_value = c.id_value
      /\ \/ c.exchange = None
         \/ c.exchange = Some("")
         \/ r.exchange_code = c.exchange
         \/ r.exchange_code = None }

C34_LookupMatchesActiveOnly ==
  \A n \in 1..Len(calls) :
    LET owners == { sec \in Range(securities) :
                      sec.is_active /\ \E r \in MatchedBy(calls[n]) : r.security_id = sec.id }
    IN  IF calls[n].ret = None THEN owners = {} ELSE calls[n].ret[1] \in owners

\* a lookup with US found an active security through a row stored with NULL, while
\* the other security, not found, owns the ticker under LN
C34_Witness ==
  /\ calls # <<>>
  /\ calls[1].ret # None
  /\ calls[1].exchange = Some("US")
  /\ \A r \in MatchedBy(calls[1]) : r.exchange_code = None
  /\ \E r \in Range(security_identifiers) :
       /\ r.identifier_value = "A" /\ r.exchange_code = Some("LN")
       /\ r.security_id # calls[1].ret[1].id
       /\ securities[r.security_id].is_active

(***************************************************************************)
(* C38.  For a given store state and a given (type, value, exchange) the   *)
(* security that a local hit returns is uniquely determined: the rows that *)
(* the lookup's fetchone() may return are rows of one security.            *)
(***************************************************************************)
C38_LocalHitDetermined ==
  \A q \in Queries :
    Cardinality(FindByIdentifier(Normalize(q.id_type), q.id_value, q.exchange)) <= 1

(***************************************************************************)
(* C35.  Every MappingResult of map_jobs, and the one that map_identifier  *)
(* returns for a single job, is well formed: success means a non-empty     *)
(* list of candidates and no error, failure means no candidate and a       *)
(* non-empty reason.                                                       *)
(***************************************************************************)
WellFormed(res) ==
  IF res.success
  THEN res.results # <<>> /\ res.error = None
  ELSE res.results = <<>> /\ res.error # None /\ res.error # Some("")

C35_ResultsWellFormed ==
  /\ \A k \in 1..Len(all_results) : WellFormed(all_results[k])
  /\ (pc = "done" /\ Len(jobs) = 1) => WellFormed(MapIdentifier(all_results))

\* a finished call returned a successful result, a result of an entry without data and
\* the results of a chunk that failed
C35_Witness ==
  /\ pc = "done"
  /\ \E k \in 1..Len(all_results) : all_results[k].success
  /\ \E k \in 1..Len(all_results) : all_results[k].error = Some("No match found")
  /\ \E n \in 1..Len(chunks) : chunks[n].how # "ok"

(***************************************************************************)
(* C36.  Whenever resolve_identifier returns a ResolvedSecurity, its       *)
(* security_id is the id of a security row that is committed in the store  *)
(* at the moment of the return, and the row carries the returned key; a    *)
(* call whose INSERT was rolled back returns no id.                        *)
(***************************************************************************)
C36_ReturnedIdIsCommitted ==
  [][ (Len(calls') = Len(calls) + 1 /\ Last(calls').ret # None)
      => /\ ~Last(calls').raised
         /\ ~tx_failed'
         /\ \E sec \in Range(securities') :
              /\ sec.id = Last(calls').ret[1].security_id
              /\ sec.figi = Last(calls').ret[1].figi
              /\ sec.is_active ]_vars

\* after a call whose placeholder was rolled back, a call returned a security it created
C36_Witness ==
  \E a, b \in 1..Len(calls) :
    /\ a < b
    /\ calls[a].raised /\ calls[a].ret = None /\ calls[a].create_if_missing
    /\ calls[b].ret # None /\ calls[b].ret[1].is_new
    /\ \E sec \in Range(securities) : sec.id = calls[b].ret[1].security_id

(***************************************************************************)
(* C37.  On the existing-key path resolve_identifier changes nothing in    *)
(* the store but for at most one new identifier row: the queried triple,   *)
(* not primary, linked to the existing security.  Every security and every *)
(* existing identifier stay as they were.                                  *)
(***************************************************************************)
\* the step is a call that the oracle answered with a key that an active security holds
ExistingKeyCall ==
  /\ Len(calls') = Len(calls) + 1
  /\ Last(calls').oracle # None
  /\ Last(calls').oracle[1].success
  /\ Last(calls').ret # None
  /\ ~Last(calls').ret[1].is_new

C37_ExistingKeyFrame ==
  [][ ExistingKeyCall =>
        /\ securities' = securities
        /\ next_id' = next_id
        /\ Len(security_identifiers') <= Len(security_identifiers) + 1
        /\ SubSeq(security_identifiers', 1, Len(security_identifiers)) = security_identifiers
        /\ Len(security_identifiers') = Len(security_identifiers) + 1 =>
             LET r == Last(security_identifiers')
             IN  /\ r.security_id = Last(calls').ret[1].security_id
                 /\ r.identifier_type = Normalize(Last(calls').args.id_type)
                 /\ r.identifier_value = Last(calls').args.id_value
                 /\ r.exchange_code = Last(calls').args.exchange
                 /\ ~r.is_primary ]_vars

\* the last call took the existing-key path and added the queried identifier to a
\* security that owns a primary figi
C37_Witness ==
  /\ calls # <<>>
  /\ Last(calls).oracle # None /\ Last(calls).oracle[1].success
  /\ Last(calls).ret # None /\ ~Last(calls).ret[1].is_new
  /\ security_identifiers # <<>>
  /\ Last(security_identifiers).security_id = Last(calls).ret[1].security_id
  /\ Last(security_identifiers).identifier_value = Last(calls).args.id_value
  /\ \E r \in Range(security_identifiers) :
       /\ r.security_id = Last(calls).ret[1].security_id
       /\ r.identifier_type = "figi" /\ r.is_primary

(***************************************************************************)
(* C39.  The summary that validate_positions, validate_trades,             *)
(* validate_securities or validate_prices returns has records_validated    *)
(* equal to the number of input records, records_failed equal to the       *)
(* number of records with at least one result of severity error, and at    *)
(* most records_validated; its three counts add up to the number of        *)
(* results; is_valid() is true exactly when error_count is 0, which is     *)
(* when no result is an error.                                             *)
(***************************************************************************)
RECURSIVE Flatten(_)
Flatten(ss) == IF ss = <<>> THEN <<>> ELSE Head(ss) \o Flatten(Tail(ss))

C39_SummaryConsistent ==
  vpc = "done" =>
    LET sm == summary[1]
        errors == { k \in 1..Len(sm.results) : sm.results[k] = "error" }
    IN  /\ sm.results = Flatten(outcomes)
        /\ sm.records_validated = Len(outcomes)
        /\ sm.records_failed =
             Cardinality({ k \in 1..Len(outcomes) :
                             \E j \in 1..Len(outcomes[k]) : outcomes[k][j] = "error" })
        /\ sm.records_failed <= sm.records_validated
        /\ sm.error_count + sm.warning_count + sm.info_count = Len(sm.results)
        /\ sm.error_count = Cardinality(errors)
        /\ IsValid(sm) <=> sm.error_count = 0
        /\ IsValid(sm) <=> errors = {}

\* a batch of two records returned: one with two errors, one with a warning or an info
C39_Witness ==
  /\ vpc = "done"
  /\ Len(outcomes) = 2
  /\ outcomes[1] = <<"error", "error">>
  /\ Len(outcomes[2]) = 1 /\ outcomes[2][1] # "error"
  /\ summary[1].records_failed = 1
  /\ summary[1].error_count = 2

====
